---- MODULE Spec2Model ----
(***************************************************************************)
(* CopIt scraper-to-catalog pipeline: the Backmarket scraper               *)
(* (server/src/scrapers/backmarket.js), the Newegg scraper                 *)
(* (server/src/scrapers/index.js, scrapeNewegg) and the product collection *)
(* they write to (server/src/models/product.js).                           *)
(*                                                                         *)
(* Texts are sequences of one-character strings.  An optional value        *)
(* (null / undefined in the source) is a sequence of length 0 or 1.        *)
(* Prices are counted in hundredths.                                       *)
(***************************************************************************)
EXTENDS Integers, Sequences, FiniteSets, TLC

\* ------------------------------------------------------------------ bounds

\* Most <a> elements a category listing page holds.
MaxLinks == 2

\* Largest explicit limit passed to scrapeCategory when it is called directly.
MaxLimit == 2

\* ------------------------------------------------------- program constants

\* scrapeCategory(categoryUrl, limit = 10)
DefaultLimit == 10

\* this.categories of BackmarketScraper
Categories == <<"Smartphones", "Laptops", "Tablets">>

NumCategories == Len(Categories)

\* parseFloat of a text without a leading number
NaN == -1

\* ------------------------------------------------------------ text helpers

Digits == {"0", "1", "2", "3", "4", "5", "6", "7", "8", "9"}

DigitVal(c) ==
    CASE c = "0" -> 0 [] c = "1" -> 1 [] c = "2" -> 2 [] c = "3" -> 3
      [] c = "4" -> 4 [] c = "5" -> 5 [] c = "6" -> 6 [] c = "7" -> 7
      [] c = "8" -> 8 [] c = "9" -> 9

Some(x) == <<x>>

None == <<>>

\* String.prototype.split(sep) for a one-character separator.
RECURSIVE Split(_, _)
Split(s, sep) ==
    IF \A i \in 1..Len(s) : s[i] # sep
    THEN <<s>>
    ELSE LET k == CHOOSE i \in 1..Len(s) :
                     s[i] = sep /\ \A j \in 1..(i - 1) : s[j] # sep
         IN  <<SubSeq(s, 1, k - 1)>> \o Split(SubSeq(s, k + 1, Len(s)), sep)

\* String.prototype.trim() (blanks only).
RECURSIVE Trim(_)
Trim(s) ==
    IF s = <<>> THEN s
    ELSE IF Head(s) = " " THEN Trim(Tail(s))
    ELSE IF s[Len(s)] = " " THEN Trim(SubSeq(s, 1, Len(s) - 1))
    ELSE s

StripNonDigits(s) == SelectSeq(s, LAMBDA c : c \in Digits)

\* text.replace(/[^0-9.]/g, '')
StripNonNumeric(s) == SelectSeq(s, LAMBDA c : c \in Digits \cup {"."})

\* The digits at the front of s.
RECURSIVE LeadingDigits(_)
LeadingDigits(s) ==
    IF s = <<>> \/ Head(s) \notin Digits THEN <<>>
    ELSE <<Head(s)>> \o LeadingDigits(Tail(s))

RECURSIVE DigitsValue(_)
DigitsValue(ds) ==
    IF ds = <<>> THEN 0
    ELSE 10 * DigitsValue(SubSeq(ds, 1, Len(ds) - 1)) + DigitVal(ds[Len(ds)])

\* parseFloat on a text of digits and points: the longest prefix
\* digits [. digits], NaN when that prefix holds no digit.  The value is in
\* hundredths; fraction digits after the second are dropped.
ParseFloat(s) ==
    LET int  == LeadingDigits(s)
        rest == SubSeq(s, Len(int) + 1, Len(s))
        frac == IF rest # <<>> /\ Head(rest) = "."
                THEN LeadingDigits(Tail(rest)) ELSE <<>>
        f2   == SubSeq(frac \o <<"0", "0">>, 1, 2)
    IN  IF int = <<>> /\ frac = <<>> THEN NaN
        ELSE 100 * DigitsValue(int) + DigitsValue(f2)

\* url.split('/').pop().split('?')[0]
SourceIdOf(url) ==
    LET segs == Split(url, "/")
    IN  Split(segs[Len(segs)], "?")[1]

\* ------------------------------------------------------------------ inputs

\* Product URLs of the Backmarket site.
UrlA == <<"/", "p", "/", "a">>

UrlB == <<"/", "p", "/", "b", "?", "q">>

BackmarketUrls == {UrlA, UrlB}

\* A product page as it is found on a visit: the innerText of the title and
\* of the price element (None: no such element) and the src attribute of
\* each image element ("": none); its other elements are an original price,
\* a description, a brand, the entries of the specs list and the add-to-cart
\* control, here as on a page without original price and specs.
Page(title, price, images) ==
    [title |-> title, price |-> price, images |-> images,
     originalPrice |-> None, description |-> Some(<<"d">>),
     brand |-> Some(<<"b">>), specs |-> <<>>, addToCart |-> TRUE]

GoodTitle == Some(<<" ", "n">>)

ProductPages ==
    {Page(None, Some(<<"$", "1">>), <<"i">>),
     Page(Some(<<" ">>), Some(<<"$", "1">>), <<"i">>),
     Page(GoodTitle, None, <<"i">>),
     Page(GoodTitle, Some(<<"F", "r", "e", "e">>), <<"i">>),
     Page(GoodTitle, Some(<<"0">>), <<"i">>),
     Page(GoodTitle, Some(<<"$", "1">>), <<"i">>),
     Page(GoodTitle, Some(<<"2", " ", "U">>), <<"">>)}

\* Product URLs of the Newegg site.
UrlN == <<"/", "n">>

UrlM == <<"/", "m">>

\* A .product-item of the Newegg deals page: the textContent of its title and
\* of its price element, the src of its image and the href of its link.
Item(title, price, image, url) ==
    [title |-> title, price |-> price, image |-> image, url |-> url]

NeweggItems ==
    {Item(None, Some(<<"$", "1">>), Some("i"), UrlN),
     Item(GoodTitle, None, Some("i"), UrlN),
     Item(GoodTitle, Some(<<"F", "r", "e", "e">>), Some("i"), UrlN),
     Item(GoodTitle, Some(<<"$", "1">>), None, UrlN),
     Item(GoodTitle, Some(<<"$", "1">>), Some("i"), UrlN),
     Item(GoodTitle, Some(<<"2", " ", "U">>), Some("i"), UrlN),
     Item(GoodTitle, Some(<<"$", "1">>), Some("i"), UrlM)}

\* Most .product-item elements the deals page holds.
MaxItems == 2

ItemLists == UNION {[1..n -> NeweggItems] : n \in 0..MaxItems}

\* The <a> elements of a listing page, each with its href or none.
Anchors == {None} \cup {Some(u) : u \in BackmarketUrls}

AnchorLists == UNION {[1..n -> Anchors] : n \in 0..MaxLinks}

\* ------------------------------------------------- extraction (Backmarket)

\* getPrice / getOriginalPrice: null without the element, else the parsed text.
GetPrice(el) ==
    IF el = None THEN None ELSE Some(ParseFloat(StripNonNumeric(el[1])))

\* getImages: the src of every image element that has one, in page order.
GetImages(srcs) == SelectSeq(srcs, LAMBDA x : x # "")

\* document.querySelector(sel)?.innerText.trim()
GetText(el) == IF el = None THEN None ELSE Some(Trim(el[1]))

\* getSpecs: the label -> value pairs of the entries 'label: value' that
\* have both, a later entry replacing an earlier one with its label.
RECURSIVE GetSpecsFrom(_, _)
GetSpecsFrom(entries, specs) ==
    IF entries = <<>> THEN specs
    ELSE LET parts == Split(Head(entries), ":")
             key   == Trim(parts[1])
             value == IF Len(parts) >= 2 THEN Some(Trim(parts[2])) ELSE None
         IN  GetSpecsFrom(Tail(entries),
                 IF key # <<>> /\ value # None /\ value[1] # <<>>
                 THEN [k \in DOMAIN specs \cup {key} |->
                          IF k = key THEN value[1] ELSE specs[k]]
                 ELSE specs)

GetSpecs(entries) == GetSpecsFrom(entries, <<>>)

\* The record page.evaluate returns in scrapeProduct (a field that is
\* undefined there, shown as None, is not part of the record).
Evaluate(page) ==
    [name           |-> GetText(page.title),
     price          |-> GetPrice(page.price),
     originalPrice  |-> GetPrice(page.originalPrice),
     description    |-> GetText(page.description),
     images         |-> GetImages(page.images),
     brand          |-> GetText(page.brand),
     specifications |-> GetSpecs(page.specs),
     stock          |-> IF page.addToCart THEN 1 ELSE 0]

\* JavaScript truthiness of an optional text / an optional number.
TruthyText(t) == t # None /\ t[1] # <<>>

TruthyNum(n) == n # None /\ n[1] # NaN /\ n[1] # 0

\* if (!product.name || !product.price) throw ...
RequiredMissingName(product) == ~TruthyText(product.name)

RequiredMissing(product) ==
    ~TruthyText(product.name) \/ ~TruthyNum(product.price)

\* product.source / sourceUrl / sourceId assignments of scrapeProduct.
Tagged(product, url) ==
    [f \in DOMAIN product \cup {"source", "sourceUrl", "sourceId"} |->
        CASE f = "source" -> "Backmarket"
          [] f = "sourceUrl" -> url
          [] f = "sourceId" -> Some(SourceIdOf(url))
          [] OTHER -> product[f]]

\* The links page.evaluate collects in scrapeCategory.
RECURSIVE DiscoverFrom(_, _, _)
DiscoverFrom(anchors, lim, links) ==
    IF anchors = <<>> THEN links
    ELSE DiscoverFrom(Tail(anchors), lim,
                      IF Len(links) < lim /\ Head(anchors) # None
                      THEN Append(links, Head(anchors)[1]) ELSE links)

DiscoverAll(anchors, lim) == DiscoverFrom(anchors, Len(anchors) + 1, <<>>)

DiscoverLinks(anchors, lim) == DiscoverFrom(anchors, lim, <<>>)

\* ----------------------------------------------------- extraction (Newegg)

\* parseFloat(price?.replace(/[^0-9.]/g, '') || '0')
NeweggPrice(el) ==
    IF el = None \/ StripNonNumeric(Trim(el[1])) = <<>> THEN 0
    ELSE ParseFloat(StripNonNumeric(Trim(el[1])))

\* The record the map callback of scrapeNewegg builds for an item.
NeweggProduct(item) ==
    [name  |-> GetText(item.title),
     price |-> Some(NeweggPrice(item.price)),
     image |-> item.image,
     url   |-> item.url]

\* .filter(product => product.name && product.price > 0)
NeweggValid(product) ==
    TruthyText(product.name) /\ product.price[1] # NaN /\ product.price[1] > 0

\* The products page.evaluate returns in scrapeNewegg.
NeweggEvaluate(items) ==
    SelectSeq([i \in 1..Len(items) |-> NeweggProduct(items[i])], NeweggValid)

\* if (product.name && product.price && product.image)
NeweggSavable(product) ==
    TruthyText(product.name) /\ TruthyNum(product.price) /\ product.image # None

\* ------------------------------------------------------- the product store

\* The clock: what Date.now() returns.
VARIABLE now

\* The fields of a stored product (productSchema).  name, description,
\* price, originalPrice, brand and sourceId are optional values: None when
\* the document has none.  averageRating is a fraction <<n, d>> in lowest
\* terms.
DocFields ==
    {"_id", "name", "description", "price", "originalPrice", "images",
     "brand", "category", "stock", "specifications", "ratings",
     "averageRating", "numReviews", "source", "sourceUrl", "sourceId",
     "createdAt", "updatedAt"}

\* A document before any field is set: the schema's defaults.
EmptyDoc ==
    [_id |-> 0, name |-> None, description |-> None, price |-> None,
     originalPrice |-> None, images |-> <<>>, brand |-> None,
     category |-> "", stock |-> 0, specifications |-> <<>>,
     ratings |-> <<>>, averageRating |-> <<0, 1>>, numReviews |-> 0,
     source |-> "", sourceUrl |-> <<>>, sourceId |-> None,
     createdAt |-> 0, updatedAt |-> 0]

\* productSchema.index({ source: 1, sourceId: 1 }, { unique: true })
DocKey(d) == <<d.source, d.sourceId>>

Matches(d, filter) == \A f \in DOMAIN filter : d[f] = filter[f]

\* Fields whose value in an update may be undefined (?.innerText of an
\* element that is not there); an update does not carry them.
UndefinableFields == {"name", "description", "brand"}

DropUndefined(update) ==
    [f \in {g \in DOMAIN update :
              ~(g \in UndefinableFields /\ update[g] = None)} |-> update[f]]

SetFields(d, update) ==
    [f \in DocFields |-> IF f \in DOMAIN update THEN update[f] ELSE d[f]]

\* The store with `old` replaced by `new` (old = new for an insert), refused
\* when another document already holds new's (source, sourceId).
Write(store, old, new) ==
    IF \E d \in store \ {old} : DocKey(d) = DocKey(new)
    THEN [ok |-> FALSE, store |-> store]
    ELSE [ok |-> TRUE, store |-> (store \ {old}) \cup {new}]

\* An _id no stored document has.
FreshId(store) ==
    CHOOSE i \in 1..(Cardinality(store) + 1) : \A d \in store : d._id # i

\* { timestamps: true }: every update stamps updatedAt.
Stamped(d) == [d EXCEPT !.updatedAt = now]

\* The document an upsert inserts when none matches: the filter's fields, then
\* the update's, with a new _id and createdAt.
NewDoc(store, filter, update) ==
    [Stamped(SetFields(SetFields(EmptyDoc, filter), DropUndefined(update)))
        EXCEPT !._id = FreshId(store), !.createdAt = now]

\* Model.findOneAndUpdate(filter, update, { upsert: true, new: true }): no
\* validators run (runValidators is not set).
FindOneAndUpdateInsertOnly(store, filter, update) ==
    IF \E d \in store : Matches(d, filter)
    THEN [ok |-> TRUE, store |-> store]
    ELSE Write(store, NewDoc(store, filter, update),
               NewDoc(store, filter, update))

FindOneAndReplace(store, filter, update) ==
    IF \E d \in store : Matches(d, filter)
    THEN Write(store, CHOOSE d \in store : Matches(d, filter),
               NewDoc(store, filter, update))
    ELSE Write(store, NewDoc(store, filter, update),
               NewDoc(store, filter, update))

FindOneAndUpdate(store, filter, update) ==
    IF \E d \in store : Matches(d, filter)
    THEN LET old == CHOOSE d \in store : Matches(d, filter)
         IN  Write(store, old, Stamped(SetFields(old, DropUndefined(update))))
    ELSE Write(store, NewDoc(store, filter, update),
               NewDoc(store, filter, update))

\* { source: 'Backmarket', sourceId: productData.sourceId }
SyncFilter(productData) ==
    [source |-> "Backmarket", sourceId |-> productData.sourceId]

SyncUpdateResetRatings(productData, categoryName) ==
    [f \in DOMAIN productData \cup {"category", "updatedAt", "ratings"} |->
        CASE f = "category" -> categoryName
          [] f = "updatedAt" -> now
          [] f = "ratings" -> <<>>
          [] OTHER -> productData[f]]

\* { ...productData, category: category.name, updatedAt: Date.now() }
SyncUpdate(productData, categoryName) ==
    [f \in DOMAIN productData \cup {"category", "updatedAt"} |->
        CASE f = "category" -> categoryName
          [] f = "updatedAt" -> now
          [] OTHER -> productData[f]]

\* Catalog Sync of the Backmarket scraper.
CatalogSyncInsertOnly(store, productData, categoryName) ==
    FindOneAndUpdateInsertOnly(store, SyncFilter(productData),
                               SyncUpdate(productData, categoryName))

CatalogSync(store, productData, categoryName) ==
    FindOneAndUpdate(store, SyncFilter(productData),
                     SyncUpdate(productData, categoryName))

\* The description scrapeNewegg composes (of the brand, category, rating,
\* shipping, stock and discount elements of the item, none of them modelled).
NeweggDescription == Some(<<"B", "r", "a", "n", "d", ":">>)

\* product.brand || 'Unknown'
NeweggBrand == Some(<<"U", "n", "k", "n", "o", "w", "n">>)

\* Catalog Sync of the Newegg scraper (for an item without category, brand
\* and stock element: product.category || 'Other', product.stock?.quantity
\* || 0; lastUpdated is no path of the schema).
NeweggSync(store, product) ==
    FindOneAndUpdate(store,
        [sourceUrl |-> product.url],
        [name        |-> product.name,
         price       |-> product.price,
         images      |-> <<product.image[1]>>,
         source      |-> "newegg",
         sourceUrl   |-> product.url,
         description |-> NeweggDescription,
         category    |-> "Other",
         brand       |-> NeweggBrand,
         stock       |-> 0])

\* ------------------------------------------------------------------- state

VARIABLES
    pc,            \* where the run stands
    scraper,       \* which scraper runs: "none", "Backmarket", "Newegg"
    browser,       \* this.browser: "none", "open", "closed"
    limit,         \* the limit scrapeCategory is called with
    ci,            \* index of the category of the for..of loop
    productLinks,  \* scrapeCategory: the links discovered on the listing page
    li,            \* scrapeCategory: index of the link of the extraction loop
    products,      \* the listings extracted from the category / the deals page
    pi,            \* index of the listing of the persistence loop
    catalog,       \* the product collection: a set of documents
    conn,          \* whether the run holds a mongoose connection
    openPages,     \* pages opened with newPage and not closed with page.close
    error,         \* origin of the exception the run has thrown, or "none"
    result,        \* the promise of the run: "pending", "resolved", "rejected"
    closeCount,    \* history: number of browser.close() calls of the run
    disconnects,   \* history: number of mongoose.disconnect() calls of the run
    walked,        \* history: categories scrapeCategory was called for
    discoverable,  \* history: the hrefs of the listing page, in page order
    extractLog,    \* history: outcome of each scrapeProduct call of this walk
                   \* ("ok", "missing" required data, "failed" otherwise)
    listLoads,     \* history: listing-page navigations of this walk
    syncLog,       \* history: outcome of each turn of this persistence loop
    lastCall,      \* history: the latest findOneAndUpdate call of the batch
    lastSync,      \* history: price of the latest answered Backmarket sync
                   \* call, per (source, sourceId)
    inFlight,      \* the awaited calls that have not settled: <<call, index>>
    runs,          \* concurrent runs: the persistence loop of each;
                   \* concurrent requests: the handler of each
    applied,       \* history: the update the store applied last, per key
    response,      \* what the server did with the API request it handled
                   \* last: the response sent or the error passed on
    cartItems      \* CartProvider: items, the entries of the cart in order

vars == <<pc, scraper, browser, limit, ci, productLinks, li, products, pi,
          catalog, conn, openPages, error, result, closeCount, disconnects,
          walked, discoverable, extractLog, listLoads, syncLog, lastCall,
          lastSync,
          inFlight, now, runs, applied, response, cartItems>>

\* The state of concurrent runs.
raceVars == <<runs, applied>>

\* What no step of a single scraper run changes (its writes are within one
\* tick of the clock).
staticVars == <<limit, now, raceVars, response, cartItems>>

\* The locals of scrapeCategory, with their history.
walkVars == <<productLinks, li, discoverable, extractLog, listLoads>>

\* The persistence loop and the store, with their history.
syncVars == <<pi, catalog, syncLog, lastCall, lastSync>>

\* The rest but pc, products, openPages and error.
runVars == <<scraper, browser, staticVars, ci, conn, result, closeCount,
             disconnects, walked>>

Init ==
    /\ pc = "idle"
    /\ scraper = "none"
    /\ browser = "none"
    /\ limit = DefaultLimit
    /\ ci = 1
    /\ productLinks = <<>>
    /\ li = 1
    /\ products = <<>>
    /\ pi = 1
    /\ catalog = {}
    /\ conn = FALSE
    /\ openPages = 0
    /\ error = "none"
    /\ result = "pending"
    /\ closeCount = 0
    /\ disconnects = 0
    /\ walked = {}
    /\ discoverable = <<>>
    /\ extractLog = <<>>
    /\ listLoads = 0
    /\ syncLog = <<>>
    /\ lastCall = None
    /\ lastSync = <<>>
    /\ inFlight = {}
    /\ now = 0
    /\ runs = <<>>
    /\ applied = <<>>
    /\ response = None
    /\ cartItems = <<>>

\* scrapeCategory is left: its locals are gone.
WalkLocalsGone ==
    /\ productLinks' = <<>>
    /\ li' = 1
    /\ discoverable' = <<>>
    /\ extractLog' = <<>>
    /\ listLoads' = 0

\* An iteration of the category loop is left: its locals are gone.
SyncLocalsGone ==
    /\ products' = <<>>
    /\ pi' = 1
    /\ syncLog' = <<>>
    /\ lastCall' = None

\* An awaited call settles (`settled`) and the code goes on to its next
\* awaited calls (`issued`).
Await(settled, issued) == inFlight' = (inFlight \ settled) \cup issued

\* for (const link of productLinks): scrapeProduct(link) for the i-th link,
\* if there is one, which starts with browser.newPage().
Attempt(links, i) == IF i <= Len(links) THEN {<<"newPage", i>>} ELSE {}

\* for (const productData of products): findOneAndUpdate for the i-th
\* listing, if there is one.
Save(listings, i) == IF i <= Len(listings) THEN {<<"save", i>>} ELSE {}

\* this.close(): browser.close() if a browser was launched.
BrowserClose == IF browser = "open" THEN {<<"close", 0>>} ELSE {}

\* ------------------------------------------- BackmarketScraper.scrapeCategory

\* scrapeCategory(url, limit): browser.newPage() resolves.
WalkOpen ==
    /\ pc = "walk"
    /\ walked' = walked \cup {ci}
    /\ openPages' = openPages + 1
    /\ pc' = "listing"
    /\ Await({<<"newPage", 0>>}, {<<"page", 0>>})
    /\ UNCHANGED <<scraper, browser, staticVars, ci, conn, result, closeCount,
                   disconnects, products, error, walkVars, syncVars>>

\* scrapeCategory: browser.newPage() rejects; the catch block rethrows.
WalkOpenFail ==
    /\ pc = "walk"
    /\ walked' = walked \cup {ci}
    /\ error' = "category"
    /\ pc' = "catch"
    /\ Await({<<"newPage", 0>>}, {})
    /\ UNCHANGED <<scraper, browser, staticVars, ci, conn, result, closeCount,
                   disconnects, products, openPages, walkVars, syncVars>>

\* The hrefs of the <a> elements that have one.
Hrefs(anchors) ==
    LET linked == SelectSeq(anchors, LAMBDA a : a # None)
    IN  [i \in 1..Len(linked) |-> linked[i][1]]

\* scrapeCategory: page.goto and page.evaluate resolve, page.close().
WalkLoadFanOut(anchors) ==
    /\ pc = "listing"
    /\ listLoads' = listLoads + 1
    /\ discoverable' = Hrefs(anchors)
    /\ productLinks' = DiscoverLinks(anchors, limit)
    /\ openPages' = openPages - 1
    /\ pc' = "extract"
    /\ Await({<<"page", 0>>},
             {<<"newPage", i>> : i \in 1..Len(productLinks')})
    /\ UNCHANGED <<runVars, li, products, error, extractLog, syncVars>>

WalkLoad(anchors) ==
    /\ pc = "listing"
    /\ listLoads' = listLoads + 1
    /\ discoverable' = Hrefs(anchors)
    /\ productLinks' = DiscoverLinks(anchors, limit)
    /\ openPages' = openPages - 1
    /\ pc' = "extract"
    /\ Await({<<"page", 0>>}, Attempt(productLinks', 1))
    /\ UNCHANGED <<runVars, li, products, error, extractLog, syncVars>>

\* scrapeCategory: page.goto or page.evaluate rejects; the page stays open
\* and the catch block rethrows.
WalkLoadFail ==
    /\ pc = "listing"
    /\ listLoads' = listLoads + 1
    /\ error' = "category"
    /\ pc' = "catch"
    /\ Await({<<"page", 0>>}, {})
    /\ UNCHANGED <<runVars, productLinks, li, products, openPages,
                   discoverable, extractLog, syncVars>>

\* catch (error) { logger.error(...); continue; } around scrapeProduct(link).
ProductThrewBreak(why) ==
    /\ extractLog' = Append(extractLog, why)
    /\ li' = Len(productLinks) + 1
    /\ Await({<<"newPage", li>>, <<"page", li>>}, {})
    /\ pc' = "extract"
    /\ UNCHANGED products

ProductThrewRetry(why) ==
    /\ extractLog' = Append(extractLog, why)
    /\ li' = li
    /\ Await({<<"newPage", li>>, <<"page", li>>}, Attempt(productLinks, li))
    /\ pc' = "extract"
    /\ UNCHANGED products

ProductThrew(why) ==
    /\ extractLog' = Append(extractLog, why)
    /\ li' = li + 1
    /\ Await({<<"newPage", li>>, <<"page", li>>}, Attempt(productLinks, li + 1))
    /\ pc' = "extract"
    /\ UNCHANGED products

\* scrapeProduct(link): browser.newPage() resolves.
ProductOpen ==
    /\ pc = "extract" /\ li <= Len(productLinks)
    /\ openPages' = openPages + 1
    /\ pc' = "product"
    /\ Await({<<"newPage", li>>}, {<<"page", li>>})
    /\ UNCHANGED <<runVars, products, error, walkVars, syncVars>>

\* scrapeProduct(link): browser.newPage() rejects.
ProductOpenFail ==
    /\ pc = "extract" /\ li <= Len(productLinks)
    /\ ProductThrew("failed")
    /\ UNCHANGED <<runVars, productLinks, openPages, error, discoverable,
                   listLoads, syncVars>>

\* scrapeProduct(link): page.goto or page.evaluate rejects; the page stays
\* open.
ProductNavFail ==
    /\ pc = "product"
    /\ ProductThrew("failed")
    /\ UNCHANGED <<runVars, productLinks, openPages, error, discoverable,
                   listLoads, syncVars>>

\* scrapeProduct(link): the page is evaluated; the listing is returned, or
\* 'Required product data missing' is thrown with the page left open.
ProductExtract(page) ==
    /\ pc = "product"
    /\ LET product == Evaluate(page)
       IN  IF RequiredMissing(product)
           THEN /\ ProductThrew("missing")
                /\ UNCHANGED openPages
           ELSE /\ products' = Append(products, Tagged(product, productLinks[li]))
                /\ extractLog' = Append(extractLog, "ok")
                /\ openPages' = openPages - 1
                /\ li' = li + 1
                /\ Await({<<"page", li>>}, Attempt(productLinks, li + 1))
                /\ pc' = "extract"
    /\ UNCHANGED <<runVars, productLinks, error, discoverable, listLoads,
                   syncVars>>

\* scrapeCategory returns products; the persistence loop starts.
WalkReturn ==
    /\ pc = "extract" /\ li > Len(productLinks)
    /\ WalkLocalsGone
    /\ pc' = "sync"
    /\ Await({}, Save(products, 1))
    /\ UNCHANGED <<runVars, products, openPages, error, syncVars>>

\* ------------------------------------------- BackmarketScraper.scrapeAndSave

\* scrapeAndSave() is called.
StartBackmarket ==
    /\ pc = "idle"
    /\ pc' = "starting"
    /\ scraper' = "Backmarket"
    /\ Await({}, {<<"launch", 0>>})
    /\ UNCHANGED <<browser, staticVars, ci, conn, result, closeCount,
                   disconnects, walked, products, openPages, error, walkVars,
                   syncVars>>

\* initialize(): puppeteer.launch resolves; the for..of loop starts.
LaunchOk ==
    /\ pc = "starting" /\ scraper = "Backmarket"
    /\ browser' = "open"
    /\ ci' = 1
    /\ pc' = "walk"
    /\ Await({<<"launch", 0>>}, {<<"newPage", 0>>})
    /\ UNCHANGED <<scraper, staticVars, conn, result, closeCount, disconnects,
                   walked, products, openPages, error, walkVars, syncVars>>

\* initialize(): puppeteer.launch rejects.
LaunchFailContinue ==
    /\ pc = "starting" /\ scraper = "Backmarket"
    /\ error' = "launch"
    /\ pc' = "walk"
    /\ Await({<<"launch", 0>>}, {<<"newPage", 0>>})
    /\ UNCHANGED <<runVars, products, openPages, walkVars, syncVars>>

LaunchFail ==
    /\ pc = "starting" /\ scraper = "Backmarket"
    /\ error' = "launch"
    /\ pc' = "catch"
    /\ Await({<<"launch", 0>>}, {})
    /\ UNCHANGED <<runVars, products, openPages, walkVars, syncVars>>

\* catch (error) { logger.error(...); continue; } around findOneAndUpdate:
\* where scrapeAndSave goes on.
OnSaveErrorAbort == "catch"

OnSaveError == "sync"

\* Product.findOneAndUpdate(...) is answered by the store.
SaveProduct ==
    /\ pc = "sync" /\ pi <= Len(products)
    /\ LET productData == products[pi]
           r == CatalogSync(catalog, productData, Categories[ci])
           key == <<"Backmarket", productData.sourceId>>
       IN  /\ catalog' = r.store
           /\ lastCall' = Some(productData)
           /\ lastSync' = [k \in DOMAIN lastSync \cup {key} |->
                             IF k = key THEN productData.price
                             ELSE lastSync[k]]
           /\ syncLog' = Append(syncLog, IF r.ok THEN "ok" ELSE "failed")
           /\ pc' = IF r.ok THEN "sync" ELSE OnSaveError
    /\ pi' = pi + 1
    /\ Await({<<"save", pi>>}, Save(products, pi + 1))
    /\ UNCHANGED <<runVars, products, openPages, error, walkVars>>

\* Product.findOneAndUpdate(...) rejects with a store error; it is logged.
SaveProductFail ==
    /\ pc = "sync" /\ pi <= Len(products)
    /\ lastCall' = Some(products[pi])
    /\ syncLog' = Append(syncLog, "failed")
    /\ pi' = pi + 1
    /\ pc' = OnSaveError
    /\ Await({<<"save", pi>>}, Save(products, pi + 1))
    /\ UNCHANGED <<runVars, products, openPages, error, walkVars, catalog,
                   lastSync>>

\* The persistence loop ends; the for..of loop takes the next category.
CategoryDoneEarly ==
    /\ pc = "sync"
    /\ SyncLocalsGone
    /\ pc' = IF ci < NumCategories THEN "walk" ELSE "finally"
    /\ ci' = IF ci < NumCategories THEN ci + 1 ELSE ci
    /\ Await(inFlight, IF ci < NumCategories
                           THEN {<<"newPage", 0>>} ELSE BrowserClose)
    /\ UNCHANGED <<scraper, browser, staticVars, conn, result, closeCount,
                   disconnects, walked, openPages, error, walkVars, catalog,
                   lastSync>>

CategoryDone ==
    /\ pc = "sync" /\ pi > Len(products)
    /\ SyncLocalsGone
    /\ pc' = IF ci < NumCategories THEN "walk" ELSE "finally"
    /\ ci' = IF ci < NumCategories THEN ci + 1 ELSE ci
    /\ Await({}, IF ci < NumCategories
                 THEN {<<"newPage", 0>>} ELSE BrowserClose)
    /\ UNCHANGED <<scraper, browser, staticVars, conn, result, closeCount,
                   disconnects, walked, openPages, error, walkVars, catalog,
                   lastSync>>

\* catch (error) { logger.error('Error in scraping process:', error) }
CatchError ==
    /\ pc = "catch"
    /\ WalkLocalsGone
    /\ SyncLocalsGone
    /\ pc' = "finally"
    /\ Await({}, BrowserClose)
    /\ UNCHANGED <<runVars, openPages, error, catalog, lastSync>>

\* finally { await this.close() }: browser.close() if a browser was launched.
CloseUnlessError ==
    /\ pc = "finally"
    /\ browser' = IF browser = "open" /\ error = "none" THEN "closed" ELSE browser
    /\ closeCount' = IF browser = "open" /\ error = "none"
                     THEN closeCount + 1 ELSE closeCount
    /\ result' = "resolved"
    /\ pc' = "done"
    /\ Await({<<"close", 0>>}, {})
    /\ UNCHANGED <<scraper, staticVars, ci, conn, disconnects, walked,
                   products, openPages, error, walkVars, syncVars>>

Close ==
    /\ pc = "finally"
    /\ browser' = IF browser = "open" THEN "closed" ELSE browser
    /\ closeCount' = IF browser = "open" THEN closeCount + 1 ELSE closeCount
    /\ result' = "resolved"
    /\ pc' = "done"
    /\ Await({<<"close", 0>>}, {})
    /\ UNCHANGED <<scraper, staticVars, ci, conn, disconnects, walked,
                   products, openPages, error, walkVars, syncVars>>

\* ------------------------------------------------------------- scrapeNewegg

\* for (const product of products): findOneAndUpdate for the i-th product,
\* if there is one and it has name, price and image.
NeweggCallFor(i) ==
    IF i <= Len(products) /\ NeweggSavable(products[i])
    THEN {<<"save", i>>} ELSE {}

\* scrapeNewegg() is called.
StartNewegg ==
    /\ pc = "idle"
    /\ pc' = "starting"
    /\ scraper' = "Newegg"
    /\ Await({}, {<<"launch", 0>>})
    /\ UNCHANGED <<browser, staticVars, ci, conn, result, closeCount,
                   disconnects, walked, products, openPages, error, walkVars,
                   syncVars>>

\* puppeteer.launch resolves; the try block is entered.
NeweggLaunchOk ==
    /\ pc = "starting" /\ scraper = "Newegg"
    /\ browser' = "open"
    /\ pc' = "n_page"
    /\ Await({<<"launch", 0>>}, {<<"newPage", 0>>})
    /\ UNCHANGED <<scraper, staticVars, ci, conn, result, closeCount,
                   disconnects, walked, products, openPages, error, walkVars,
                   syncVars>>

\* puppeteer.launch rejects, outside the try block: scrapeNewegg rejects.
NeweggLaunchFail ==
    /\ pc = "starting" /\ scraper = "Newegg"
    /\ error' = "launch"
    /\ result' = "rejected"
    /\ pc' = "done"
    /\ Await({<<"launch", 0>>}, {})
    /\ UNCHANGED <<scraper, browser, staticVars, ci, conn, closeCount,
                   disconnects, walked, products, openPages, walkVars,
                   syncVars>>

\* browser.newPage() resolves.
NeweggOpen ==
    /\ pc = "n_page"
    /\ openPages' = openPages + 1
    /\ pc' = "n_listing"
    /\ Await({<<"newPage", 0>>}, {<<"page", 0>>})
    /\ UNCHANGED <<runVars, products, error, walkVars, syncVars>>

\* newPage, setViewport, setUserAgent, goto, waitForSelector or evaluate
\* rejects: caught, logged and rethrown once the finally block has run.
NeweggPageFail ==
    /\ pc \in {"n_page", "n_listing"}
    /\ error' = "page"
    /\ pc' = "n_finally"
    /\ Await({<<"newPage", 0>>, <<"page", 0>>}, {<<"close", 0>>})
    /\ UNCHANGED <<runVars, products, openPages, walkVars, syncVars>>

\* page.goto, waitForSelector and page.evaluate resolve.
NeweggLoad(items) ==
    /\ pc = "n_listing"
    /\ products' = NeweggEvaluate(items)
    /\ pc' = "n_connect"
    /\ Await({<<"page", 0>>}, {<<"connect", 0>>})
    /\ UNCHANGED <<runVars, openPages, error, walkVars, syncVars>>

\* mongoose.connect resolves; the persistence loop starts.
NeweggConnect ==
    /\ pc = "n_connect"
    /\ conn' = TRUE
    /\ pc' = "n_sync"
    /\ Await({<<"connect", 0>>}, NeweggCallFor(1))
    /\ UNCHANGED <<scraper, browser, staticVars, ci, result, closeCount,
                   disconnects, walked, products, openPages, error, walkVars,
                   syncVars>>

\* mongoose.connect rejects: caught, logged and rethrown.
NeweggConnectFail ==
    /\ pc = "n_connect"
    /\ error' = "connect"
    /\ pc' = "n_finally"
    /\ Await({<<"connect", 0>>}, {<<"close", 0>>})
    /\ UNCHANGED <<runVars, products, openPages, walkVars, syncVars>>

\* The call scrapeNewegg makes for a product, as logged.
NeweggCall(product) ==
    Some([name |-> product.name, price |-> product.price,
          images |-> <<product.image[1]>>, sourceUrl |-> product.url])

\* One turn of the persistence loop: findOneAndUpdate is answered by the
\* store, or the product has no image and is passed over.
NeweggSave ==
    /\ pc = "n_sync" /\ pi <= Len(products)
    /\ LET product == products[pi]
           r == NeweggSync(catalog, product)
       IN  IF NeweggSavable(product)
           THEN /\ catalog' = r.store
                /\ lastCall' = NeweggCall(product)
                /\ syncLog' = Append(syncLog, IF r.ok THEN "ok" ELSE "failed")
           ELSE /\ syncLog' = Append(syncLog, "skipped")
                /\ UNCHANGED <<catalog, lastCall>>
    /\ pi' = pi + 1
    /\ Await({<<"save", pi>>}, NeweggCallFor(pi + 1))
    /\ UNCHANGED <<pc, runVars, products, openPages, error, walkVars,
                   lastSync>>

\* findOneAndUpdate rejects with a store error; it is pushed to errors.
NeweggSaveFail ==
    /\ pc = "n_sync" /\ pi <= Len(products)
    /\ NeweggSavable(products[pi])
    /\ lastCall' = NeweggCall(products[pi])
    /\ syncLog' = Append(syncLog, "failed")
    /\ pi' = pi + 1
    /\ Await({<<"save", pi>>}, NeweggCallFor(pi + 1))
    /\ UNCHANGED <<pc, runVars, products, openPages, error, walkVars, catalog,
                   lastSync>>

\* The persistence loop ends.
NeweggSyncDone ==
    /\ pc = "n_sync" /\ pi > Len(products)
    /\ SyncLocalsGone
    /\ pc' = "n_finally"
    /\ Await({}, {<<"close", 0>>})
    /\ UNCHANGED <<runVars, openPages, error, walkVars, catalog, lastSync>>

\* finally { await browser.close(); await mongoose.disconnect() }
NeweggFinally ==
    /\ pc = "n_finally"
    /\ browser' = "closed"
    /\ closeCount' = closeCount + 1
    /\ conn' = FALSE
    /\ disconnects' = disconnects + 1
    /\ SyncLocalsGone
    /\ result' = IF error = "none" THEN "resolved" ELSE "rejected"
    /\ pc' = "done"
    /\ Await({<<"close", 0>>}, {})
    /\ UNCHANGED <<scraper, staticVars, ci, walked, openPages, error,
                   walkVars, catalog, lastSync>>

\* -------------------------------------------------------------- runScrapers

\* runScrapers() is called: mongoose.connect is awaited.
StartRunScrapers ==
    /\ pc = "idle"
    /\ pc' = "r_connect"
    /\ scraper' = "runScrapers"
    /\ Await({}, {<<"connect", 0>>})
    /\ UNCHANGED <<browser, staticVars, ci, conn, result, closeCount,
                   disconnects, walked, products, openPages, error, walkVars,
                   syncVars>>

\* mongoose.connect resolves.  new NeweggScraper() then throws: ./newegg
\* exports the arrow function scrapeNewegg, which is no constructor.  The
\* catch block logs it and the finally block awaits mongoose.disconnect.
RunConnectOk ==
    /\ pc = "r_connect"
    /\ conn' = TRUE
    /\ error' = "constructor"
    /\ pc' = "r_finally"
    /\ Await({<<"connect", 0>>}, {<<"disconnect", 0>>})
    /\ UNCHANGED <<scraper, browser, staticVars, ci, result, closeCount,
                   disconnects, walked, products, openPages, walkVars,
                   syncVars>>

RunConnectFailUncaught ==
    /\ pc = "r_connect"
    /\ error' = "connect"
    /\ result' = "rejected"
    /\ pc' = "done"
    /\ Await({<<"connect", 0>>}, {})
    /\ UNCHANGED <<scraper, browser, staticVars, ci, conn, closeCount,
                   disconnects, walked, products, openPages, walkVars,
                   syncVars>>

\* mongoose.connect rejects: logged by the catch block; the finally block
\* awaits mongoose.disconnect.
RunConnectFail ==
    /\ pc = "r_connect"
    /\ error' = "connect"
    /\ pc' = "r_finally"
    /\ Await({<<"connect", 0>>}, {<<"disconnect", 0>>})
    /\ UNCHANGED <<runVars, products, openPages, walkVars, syncVars>>

\* finally { await mongoose.disconnect() } settles; runScrapers resolves when
\* it resolved and rejects when it rejected.
RunDisconnect(ok) ==
    /\ pc = "r_finally"
    /\ conn' = FALSE
    /\ disconnects' = disconnects + 1
    /\ result' = IF ok THEN "resolved" ELSE "rejected"
    /\ pc' = "done"
    /\ Await({<<"disconnect", 0>>}, {})
    /\ UNCHANGED <<scraper, browser, staticVars, ci, closeCount, walked,
                   products, openPages, error, walkVars, syncVars>>

Next ==
    \/ StartRunScrapers
    \/ RunConnectOk
    \/ RunConnectFail
    \/ \E ok \in BOOLEAN : RunDisconnect(ok)
    \/ StartBackmarket
    \/ StartNewegg
    \/ NeweggLaunchOk
    \/ NeweggLaunchFail
    \/ NeweggOpen
    \/ NeweggPageFail
    \/ \E items \in ItemLists : NeweggLoad(items)
    \/ NeweggConnect
    \/ NeweggConnectFail
    \/ NeweggSave
    \/ NeweggSaveFail
    \/ NeweggSyncDone
    \/ NeweggFinally
    \/ LaunchOk
    \/ LaunchFail
    \/ WalkOpen
    \/ WalkOpenFail
    \/ \E anchors \in AnchorLists : WalkLoad(anchors)
    \/ WalkLoadFail
    \/ ProductOpen
    \/ ProductOpenFail
    \/ ProductNavFail
    \/ \E page \in ProductPages : ProductExtract(page)
    \/ WalkReturn
    \/ SaveProduct
    \/ SaveProductFail
    \/ CategoryDone
    \/ CatchError
    \/ Close

Spec == Init /\ [][Next]_vars

\* The steps of a scrapeAndSave run, with every outcome of every awaited
\* call: each call resolves or rejects, a listing page shows 0..MaxLinks
\* links, a product page has its mandatory fields or lacks one.  (What the
\* links and the pages say beyond that does not decide which step is next.)
NextLive ==
    \/ StartBackmarket
    \/ LaunchOk
    \/ LaunchFail
    \/ WalkOpen
    \/ WalkOpenFail
    \/ \E anchors \in {a \in AnchorLists :
                           \A i \in DOMAIN a : a[i] = Some(UrlA)} :
           WalkLoad(anchors)
    \/ WalkLoadFail
    \/ ProductOpen
    \/ ProductOpenFail
    \/ ProductNavFail
    \/ \E page \in {p \in ProductPages :
                        /\ p.title = GoodTitle /\ p.images = <<"i">>
                        /\ p.price \in {None, Some(<<"$", "1">>)}} :
           ProductExtract(page)
    \/ WalkReturn
    \/ SaveProduct
    \/ SaveProductFail
    \/ CategoryDone
    \/ CatchError
    \/ Close

\* A run in which every awaited call settles: the step that waits for it is
\* taken.
SpecLive == Init /\ [][NextLive]_vars /\ WF_vars(NextLive)

\* --------------------------------- scrapeCategory called with any limit

Limits == (0..MaxLimit) \cup {DefaultLimit}

InitWalk ==
    /\ pc = "walk"
    /\ scraper = "Backmarket"
    /\ browser = "open"
    /\ limit \in Limits
    /\ ci \in 1..NumCategories
    /\ productLinks = <<>>
    /\ li = 1
    /\ products = <<>>
    /\ pi = 1
    /\ catalog = {}
    /\ conn = FALSE
    /\ openPages = 0
    /\ error = "none"
    /\ result = "pending"
    /\ closeCount = 0
    /\ disconnects = 0
    /\ walked = {}
    /\ discoverable = <<>>
    /\ extractLog = <<>>
    /\ listLoads = 0
    /\ syncLog = <<>>
    /\ lastCall = None
    /\ lastSync = <<>>
    /\ inFlight = {<<"newPage", 0>>}
    /\ now = 0
    /\ runs = <<>>
    /\ applied = <<>>
    /\ response = None
    /\ cartItems = <<>>

NextWalk ==
    \/ WalkOpen
    \/ WalkOpenFail
    \/ \E anchors \in AnchorLists : WalkLoad(anchors)
    \/ WalkLoadFail
    \/ ProductOpen
    \/ ProductOpenFail
    \/ ProductNavFail
    \/ \E page \in ProductPages : ProductExtract(page)
    \/ WalkReturn

SpecWalk == InitWalk /\ [][NextWalk]_vars

\* ------------------ scrapeProduct and the deals page over texts of any form

\* Product pages whose price text and whose specs entries take the forms a
\* site can show: thousands separators, currency words, several points, no
\* digit at all; entries without a colon, without a label, without a value,
\* with a colon inside the value, with a label that occurs twice.
ParsePages ==
    {Page(GoodTitle, Some(t), <<"i">>) : t \in
        {<<"$", "1", ",", "2", "9", "9", ".", "9", "9", " ", "U", "S", "D">>,
         <<"$", "5">>,
         <<"5", ".">>,
         <<".", "5">>,
         <<"0", ".", "0", "0">>,
         <<"F", "r", "e", "e">>,
         <<"1", ".", "2", ".", "3">>,
         <<"$", "5", ".", " ", "o", "r", " ", "$", "3", ".">>}}
    \cup
    {[Page(GoodTitle, Some(<<"$", "1">>), <<"i">>) EXCEPT !.specs = s] : s \in
        {<<<<"R", "A", "M", ":", " ", "1", "6", "G", "B">>,
           <<"W", "a", "r", "r", "a", "n", "t", "y", "N", "o",
             "C", "o", "l", "o", "n">>,
           <<"S", "t", "o", "r", "a", "g", "e", ":", " ", "5", "1", "2",
             "G", "B">>>>,
         <<<<"k", ":", "v">>>>,
         <<<<"k">>>>,
         <<<<" ", ":", "v">>>>,
         <<<<"k", ":", " ">>>>,
         <<<<"k", ":", "v">>, <<"k", ":", "w">>>>,
         <<<<"R", "a", "t", "i", "o", ":", " ", "1", "6", ":", "9">>>>}}

\* scrapeCategory has collected its links and starts on the first, or
\* scrapeNewegg has opened the deals page.  An href is any text: its last
\* path segment can be another link's, and can be empty.
InitPage ==
    /\ scraper \in {"Backmarket", "Newegg"}
    /\ pc = IF scraper = "Backmarket" THEN "extract" ELSE "n_listing"
    /\ browser = "open"
    /\ limit = DefaultLimit
    /\ ci = 1
    /\ productLinks \in
           IF scraper = "Backmarket"
           THEN UNION {[1..n -> {UrlA, <<"/", "q", "/", "a">>,
                                 <<"/", "p", "/", "c", "/">>}] :
                          n \in 1..MaxLinks}
           ELSE {<<>>}
    /\ li = 1
    /\ products = <<>>
    /\ pi = 1
    /\ catalog = {}
    /\ conn = FALSE
    /\ openPages = IF scraper = "Backmarket" THEN 0 ELSE 1
    /\ error = "none"
    /\ result = "pending"
    /\ closeCount = 0
    /\ disconnects = 0
    /\ walked = IF scraper = "Backmarket" THEN {ci} ELSE {}
    /\ discoverable = productLinks
    /\ extractLog = <<>>
    /\ listLoads = IF scraper = "Backmarket" THEN 1 ELSE 0
    /\ syncLog = <<>>
    /\ lastCall = None
    /\ lastSync = <<>>
    /\ inFlight = IF scraper = "Backmarket" THEN Attempt(productLinks, 1)
                  ELSE {<<"page", 0>>}
    /\ now = 0
    /\ runs = <<>>
    /\ applied = <<>>
    /\ response = None
    /\ cartItems = <<>>

NextPage ==
    \/ ProductOpen
    \/ ProductOpenFail
    \/ ProductNavFail
    \/ \E page \in ParsePages : ProductExtract(page)
    \/ \E page \in ParsePages :
           NeweggLoad(<<Item(GoodTitle, page.price, Some("i"), UrlN)>>)

SpecPage == InitPage /\ [][NextPage]_vars

\* ------------------------- persistence loops of two runs at the same time

\* Most listings the persistence loop of a concurrent run is handed.
MaxBatch == 2

\* The runs that write to the store at the same time; run r is in the r-th
\* category.
Runs == {1, 2}

\* The listings scrapeCategory can return.
Listings ==
    {Tagged(Evaluate(page), url) :
         page \in {p \in ProductPages : ~RequiredMissing(Evaluate(p))},
         url \in BackmarketUrls}

\* A run between two turns of its persistence loop.
BetweenTurns(pi_, log) ==
    [pc |-> "loop", pi |-> pi_, productData |-> None, plan |-> "",
     log |-> log]

InitRace ==
    /\ pc = "idle"
    /\ scraper = "none"
    /\ browser = "none"
    /\ limit = DefaultLimit
    /\ ci = 1
    /\ productLinks = <<>>
    /\ li = 1
    /\ products = <<>>
    /\ pi = 1
    /\ catalog = {}
    /\ conn = FALSE
    /\ openPages = 0
    /\ error = "none"
    /\ result = "pending"
    /\ closeCount = 0
    /\ disconnects = 0
    /\ walked = {}
    /\ discoverable = <<>>
    /\ extractLog = <<>>
    /\ listLoads = 0
    /\ syncLog = <<>>
    /\ lastCall = None
    /\ lastSync = <<>>
    /\ inFlight = {}
    /\ now = 0
    /\ runs = [r \in Runs |-> BetweenTurns(1, <<>>)]
    /\ applied = <<>>
    /\ response = None
    /\ cartItems = <<>>

\* The state of a single run, but the store.
soloVars == <<pc, scraper, browser, limit, ci, productLinks, li, products, pi,
              conn, openPages, error, result, closeCount, disconnects,
              walked, discoverable, extractLog, listLoads, syncLog, lastCall,
              lastSync, inFlight, now, response,
              cartItems>>

InsertUnindexed(store, new) == [ok |-> TRUE, store |-> store \cup {new}]

\* An insert, refused while a document holds the (source, sourceId).
Insert(store, new) ==
    IF \E d \in store : DocKey(d) = DocKey(new)
    THEN [ok |-> FALSE, store |-> store]
    ELSE [ok |-> TRUE, store |-> store \cup {new}]

\* The document the call of run r inserts.
RaceDoc(r) ==
    NewDoc(catalog, SyncFilter(runs[r].productData[1]),
           SyncUpdate(runs[r].productData[1], Categories[r]))

\* The turn of run r is over with `outcome`; the loop goes on.
RaceTurnOver(r, outcome) ==
    runs' = [runs EXCEPT ![r] =
                BetweenTurns(runs[r].pi + 1, Append(runs[r].log, outcome))]

\* The store has applied the call of run r.
RaceApplied(r) ==
    LET update == DropUndefined(SyncUpdate(runs[r].productData[1],
                                           Categories[r]))
        key == <<update.source, update.sourceId>>
    IN  applied' = [k \in DOMAIN applied \cup {key} |->
                       IF k = key THEN update ELSE applied[k]]

\* for (const productData of products): run r takes its next listing and
\* calls findOneAndUpdate.
RaceTake(r, listing) ==
    /\ runs[r].pc = "loop" /\ runs[r].pi <= MaxBatch
    /\ runs' = [runs EXCEPT ![r].pc = "find",
                            ![r].productData = Some(listing)]
    /\ UNCHANGED <<soloVars, catalog, applied>>

\* The products of run r are exhausted.
RaceEnd(r) ==
    /\ runs[r].pc = "loop"
    /\ runs' = [runs EXCEPT ![r].pc = "done"]
    /\ UNCHANGED <<soloVars, catalog, applied>>

\* The store looks for the document of the filter: it will update the one it
\* finds, or insert one.
RaceFind(r) ==
    /\ runs[r].pc = "find"
    /\ runs' = [runs EXCEPT
                   ![r].pc = "write",
                   ![r].plan =
                       IF \E d \in catalog :
                              Matches(d, SyncFilter(runs[r].productData[1]))
                       THEN "update" ELSE "insert"]
    /\ UNCHANGED <<soloVars, catalog, applied>>

\* The store updates the document it found, or inserts the new one.
RaceWrite(r) ==
    /\ runs[r].pc = "write"
    /\ LET productData == runs[r].productData[1]
           res == IF runs[r].plan = "update"
                  THEN CatalogSync(catalog, productData, Categories[r])
                  ELSE Insert(catalog, RaceDoc(r))
       IN  /\ res.ok
           /\ catalog' = res.store
    /\ RaceApplied(r)
    /\ RaceTurnOver(r, "ok")
    /\ UNCHANGED soloVars

\* The insert is refused, another run having inserted the key since the
\* find: the store retries the upsert, which now updates that document.
RaceRetry(r) ==
    /\ runs[r].pc = "write" /\ runs[r].plan = "insert"
    /\ ~Insert(catalog, RaceDoc(r)).ok
    /\ catalog' = CatalogSync(catalog, runs[r].productData[1],
                              Categories[r]).store
    /\ RaceApplied(r)
    /\ RaceTurnOver(r, "ok")
    /\ UNCHANGED soloVars

\* The insert is refused and findOneAndUpdate rejects with the duplicate-key
\* error: catch (error) { logger.error(...); continue; }
RaceDuplicateKey(r) ==
    /\ runs[r].pc = "write" /\ runs[r].plan = "insert"
    /\ ~Insert(catalog, RaceDoc(r)).ok
    /\ RaceTurnOver(r, "failed")
    /\ UNCHANGED <<soloVars, catalog, applied>>

NextRace ==
    \E r \in Runs :
        \/ \E listing \in Listings : RaceTake(r, listing)
        \/ RaceEnd(r)
        \/ RaceFind(r)
        \/ RaceWrite(r)
        \/ RaceRetry(r)
        \/ RaceDuplicateKey(r)

SpecRace == InitRace /\ [][NextRace]_vars

\* ------------------------------------------- the storefront API (products)

\* Most operations on the store (sync calls and API requests) in a history.
MaxOps == 2

\* The users collection: _id and role of each user.
Users == {[_id |-> 1, role |-> "admin"], [_id |-> 2, role |-> "user"]}

\* jwt.verify(token, process.env.JWT_SECRET): the id a token signed with the
\* secret decodes to ("G": the token of a user that is no more), None when it
\* throws.
Verify(token) ==
    CASE token = <<"A">> -> Some(1)
      [] token = <<"U">> -> Some(2)
      [] token = <<"G">> -> Some(3)
      [] OTHER -> None

\* What a request carries: the token cookie and the Authorization header.
Credentials(cookie, authorization) ==
    [cookie |-> cookie, authorization |-> authorization]

Bearer(token) == Some(<<"B", "e", "a", "r", "e", "r", " ">> \o token)

CredentialsSent ==
    {Credentials(None, None),
     Credentials(None, Bearer(<<"A">>)),
     Credentials(None, Bearer(<<"U">>)),
     Credentials(None, Bearer(<<"G">>)),
     Credentials(None, Bearer(<<"X">>)),
     Credentials(None, Bearer(<<>>)),
     Credentials(None, Some(<<"B", "a", "s", "i", "c", " ", "A">>)),
     Credentials(Some(<<"A">>), None),
     Credentials(Some(<<"X">>), Bearer(<<"A">>)),
     Credentials(Some(<<>>), Bearer(<<"U">>))}

\* String.prototype.startsWith
StartsWith(s, prefix) ==
    Len(s) >= Len(prefix) /\ SubSeq(s, 1, Len(prefix)) = prefix

\* The token protect reads: the cookie's, else the Bearer header's.
TokenOf(credentials) ==
    IF TruthyText(credentials.cookie) THEN credentials.cookie
    ELSE IF /\ credentials.authorization # None
            /\ StartsWith(credentials.authorization[1],
                          <<"B", "e", "a", "r", "e", "r">>)
         THEN LET parts == Split(credentials.authorization[1], " ")
              IN  IF Len(parts) >= 2 THEN Some(parts[2]) ELSE None
         ELSE None

\* The status a middleware answers with (0: it calls next) and req.user.
ProtectOpen(credentials) ==
    [status |-> 0, user |-> Some(CHOOSE u \in Users : u.role = "admin")]

\* protect: the token is verified and its user looked up.
Protect(credentials) ==
    LET token == TokenOf(credentials)
        decoded == IF TruthyText(token) THEN Verify(token[1]) ELSE None
    IN  IF ~TruthyText(token) \/ decoded = None
           \/ ~\E u \in Users : u._id = decoded[1]
        THEN [status |-> 401, user |-> None]
        ELSE [status |-> 0,
              user |-> Some(CHOOSE u \in Users : u._id = decoded[1])]

\* What protect does with each request sent.
Protected == [credentials \in CredentialsSent |-> Protect(credentials)]

\* authorize(...roles), after protect.
Authorize(roles, guard) ==
    IF guard.status = 0 /\ guard.user[1].role \notin roles
    THEN [status |-> 403, user |-> guard.user]
    ELSE guard

\* res.status(status).json(...)
Sent(status) == [status |-> status, error |-> "none"]

\* next(error): left to the error handler.
Passed(err) == [status |-> 0, error |-> err]

\* The greatest common divisor of a > 0 and b >= 0.
RECURSIVE Gcd(_, _)
Gcd(a, b) == IF b = 0 THEN a ELSE Gcd(b, a % b)

RECURSIVE SumOfRatings(_)
SumOfRatings(ratings) ==
    IF ratings = <<>> THEN 0
    ELSE Head(ratings).rating[1] + SumOfRatings(Tail(ratings))

\* ratings.reduce((acc, item) => item.rating + acc, 0) / ratings.length
MeanRating(ratings) ==
    LET g == Gcd(Len(ratings), SumOfRatings(ratings))
    IN  <<SumOfRatings(ratings) \div g, Len(ratings) \div g>>

\* productSchema.pre('save')
PreSaveAlways(doc) ==
    [doc EXCEPT !.averageRating =
                    IF doc.ratings = <<>> THEN <<0, 1>>
                    ELSE MeanRating(doc.ratings),
                !.numReviews = Len(doc.ratings)]

PreSave(doc) ==
    IF Len(doc.ratings) > 0
    THEN [doc EXCEPT !.averageRating = MeanRating(doc.ratings),
                     !.numReviews = Len(doc.ratings)]
    ELSE doc

\* The validators of a path of productSchema, on value v.
FieldValid(f, v) ==
    CASE f \in {"name", "description", "brand", "sourceId"} ->
             v # None /\ v[1] # <<>>
      [] f = "price" -> v # None /\ v[1] # NaN /\ v[1] >= 0
      [] f = "originalPrice" -> v = None \/ (v[1] # NaN /\ v[1] >= 0)
      [] f = "images" -> \A i \in DOMAIN v : v[i] # ""
      [] f = "category" -> v # ""
      [] f = "stock" -> v >= 0
      [] f = "ratings" ->
             \A i \in DOMAIN v :
                 v[i].rating # None /\ v[i].rating[1] \in 1..5
      [] f = "source" -> v \in {"Newegg", "Backmarket"}
      [] f = "sourceUrl" -> v # <<>>
      [] OTHER -> TRUE

\* Document validation (of save and create): every path.
Valid(doc) == \A f \in DocFields : FieldValid(f, doc[f])

\* Update validation (runValidators: true): the paths of the update.
ValidUpdate(update) == \A f \in DOMAIN update : FieldValid(f, update[f])

\* Product.create(req.body)
Create(store, body) ==
    LET doc == [Stamped(SetFields(EmptyDoc, body))
                   EXCEPT !._id = FreshId(store), !.createdAt = now]
        w == Write(store, PreSave(doc), PreSave(doc))
    IN  IF ~Valid(doc)
        THEN [store |-> store, response |-> Passed("ValidationError")]
        ELSE IF ~w.ok
        THEN [store |-> store, response |-> Passed("MongoServerError")]
        ELSE [store |-> w.store, response |-> Sent(201)]

\* Product.findByIdAndUpdate(id, req.body, { new: true, runValidators: true })
FindByIdAndUpdate(store, id, body) ==
    IF ~ValidUpdate(body)
    THEN [store |-> store, response |-> Passed("ValidationError")]
    ELSE IF ~\E d \in store : d._id = id
    THEN [store |-> store, response |-> Passed("AppError 404")]
    ELSE LET old == CHOOSE d \in store : d._id = id
             w == Write(store, old, Stamped(SetFields(old, body)))
         IN  IF w.ok THEN [store |-> w.store, response |-> Sent(200)]
             ELSE [store |-> store, response |-> Passed("MongoServerError")]

\* Product.findByIdAndDelete(id)
FindByIdAndDelete(store, id) ==
    IF \E d \in store : d._id = id
    THEN [store |-> {d \in store : d._id # id}, response |-> Sent(200)]
    ELSE [store |-> store, response |-> Passed("AppError 404")]

\* The handler of POST /:id/ratings, for req.user = user (the review, a free
\* text no validator looks at, is left out).
Rate(store, id, user, body) ==
    IF ~\E d \in store : d._id = id
    THEN [store |-> store, response |-> Passed("AppError 404")]
    ELSE LET product == CHOOSE d \in store : d._id = id
             rating == [user |-> user._id, rating |-> body.rating,
                        createdAt |-> now]
             pushed == [product EXCEPT !.ratings = Append(@, rating)]
             w == Write(store, product, Stamped(PreSave(pushed)))
         IN  IF \E i \in DOMAIN product.ratings :
                    product.ratings[i].user = user._id
             THEN [store |-> store, response |-> Passed("AppError 400")]
             ELSE IF ~Valid(pushed)
             THEN [store |-> store, response |-> Passed("ValidationError")]
             ELSE IF ~w.ok
             THEN [store |-> store,
                   response |-> Passed("MongoServerError")]
             ELSE [store |-> w.store, response |-> Sent(201)]

\* The _ids a request names: those that can be in use, and one more.
Ids == 1..MaxOps

\* The listings scrapeAndSave hands to Catalog Sync: of a product page with
\* a specification, and of one that has lost its description and brand and
\* shows an original price and no add-to-cart control.
SyncListings ==
    {Tagged(Evaluate(page), url) :
         page \in {[Page(GoodTitle, Some(<<"$", "1">>), <<"i">>)
                       EXCEPT !.specs = <<<<"k", ":", "v">>>>],
                   [Page(GoodTitle, Some(<<"$", "2">>), <<"j">>)
                       EXCEPT !.description = None, !.brand = None,
                              !.originalPrice = Some(<<"$", "3">>),
                              !.addToCart = FALSE]},
         url \in BackmarketUrls}

NeweggListings ==
    {NeweggProduct(Item(GoodTitle, Some(<<"$", "1">>), Some("i"), url)) :
         url \in {UrlN, UrlM}}

\* A product as an admin posts it (of a listing at UrlA, with sourceId "a").
Posted ==
    [name |-> Some(<<"n">>), description |-> Some(<<"d">>), price |-> Some(100),
     images |-> <<"i">>, brand |-> Some(<<"b">>), category |-> "Laptops",
     stock |-> 1, source |-> "Backmarket", sourceUrl |-> UrlA,
     sourceId |-> Some(<<"a">>)]

\* req.body of a POST /: Posted; Posted with a rating, with an average rating,
\* and without its name.
CreateBodies ==
    {Posted,
     ("ratings" :> <<[user |-> 2, rating |-> Some(4), createdAt |-> 0]>>)
         @@ Posted,
     ("averageRating" :> <<5, 1>>) @@ Posted,
     ("name" :> None) @@ Posted}

\* req.body of a PUT /:id
UpdateBodies ==
    {[price |-> Some(300)],
     [price |-> Some(0 - 100)],
     [averageRating |-> <<5, 1>>],
     [ratings |-> <<>>]}

\* req.body of a POST /:id/ratings
RatingBodies == {[rating |-> r] : r \in {None, Some(2), Some(5), Some(6)}}

\* What neither a sync call nor an API request changes.
serverFrame == <<pc, scraper, browser, limit, productLinks, li, products, pi,
                 conn, openPages, error, result, closeCount, disconnects,
                 walked, discoverable, extractLog, listLoads, lastSync,
                 inFlight, raceVars, cartItems>>

\* The server has handled a request: out is the store and the response.
Handled(out) ==
    /\ now < MaxOps
    /\ response' = Some(out.response)
    /\ catalog' = out.store
    /\ now' = now + 1
    /\ lastCall' = None
    /\ syncLog' = <<>>
    /\ UNCHANGED serverFrame

\* A middleware chain has answered with guard.status, or the handler with out.
Guarded(guard, out) ==
    IF guard.status # 0
    THEN [store |-> catalog, response |-> Sent(guard.status)]
    ELSE out

\* router.get('/')
GetProducts(credentials) ==
    /\ Handled([store |-> catalog, response |-> Sent(200)])
    /\ UNCHANGED ci

\* router.get('/:id')
GetProduct(credentials, id) ==
    /\ Handled([store |-> catalog,
                response |-> IF \E d \in catalog : d._id = id THEN Sent(200)
                             ELSE Passed("AppError 404")])
    /\ UNCHANGED ci

\* router.post('/', protect, authorize('admin'), ...)
CreateProduct(credentials, body) ==
    /\ Handled(Guarded(Authorize({"admin"}, Protected[credentials]),
                       Create(catalog, body)))
    /\ UNCHANGED ci

\* router.put('/:id', protect, authorize('admin'), ...)
UpdateProduct(credentials, id, body) ==
    /\ Handled(Guarded(Authorize({"admin"}, Protected[credentials]),
                       FindByIdAndUpdate(catalog, id, body)))
    /\ UNCHANGED ci

\* router.delete('/:id', protect, authorize('admin'), ...)
DeleteProduct(credentials, id) ==
    /\ Handled(Guarded(Authorize({"admin"}, Protected[credentials]),
                       FindByIdAndDelete(catalog, id)))
    /\ UNCHANGED ci

\* router.post('/:id/ratings', protect, ...)
AddRating(credentials, id, body) ==
    /\ Handled(Guarded(Protected[credentials],
                       Rate(catalog, id, Protected[credentials].user[1],
                            body)))
    /\ UNCHANGED ci

\* A scraper's call of findOneAndUpdate has been answered with r.
Synced(call, r) ==
    /\ now < MaxOps
    /\ catalog' = r.store
    /\ lastCall' = call
    /\ syncLog' = <<IF r.ok THEN "ok" ELSE "failed">>
    /\ now' = now + 1
    /\ response' = None
    /\ UNCHANGED serverFrame

\* A turn of the persistence loop of scrapeAndSave, in category c.
BackmarketSyncCall(productData, c) ==
    /\ ci' = c
    /\ Synced(Some(productData), CatalogSync(catalog, productData,
                                             Categories[c]))

\* A turn of the persistence loop of scrapeNewegg.
NeweggSyncCall(product) ==
    /\ NeweggSavable(product)
    /\ Synced(NeweggCall(product), NeweggSync(catalog, product))
    /\ UNCHANGED ci

NextStore ==
    \/ \E productData \in SyncListings, c \in 1..NumCategories :
           BackmarketSyncCall(productData, c)
    \/ \E product \in NeweggListings : NeweggSyncCall(product)
    \/ \E credentials \in CredentialsSent :
           \/ GetProducts(credentials)
           \/ \E id \in Ids : GetProduct(credentials, id)
           \/ \E body \in CreateBodies : CreateProduct(credentials, body)
           \/ \E id \in Ids, body \in UpdateBodies :
                  UpdateProduct(credentials, id, body)
           \/ \E id \in Ids : DeleteProduct(credentials, id)
           \/ \E id \in Ids, body \in RatingBodies :
                  AddRating(credentials, id, body)

\* Sync calls and API requests, from the empty store.
SpecStore == Init /\ [][NextStore]_vars

\* --------------------- rating submissions the server handles concurrently

\* Two POST /:id/ratings requests have passed protect; the store holds one
\* product, unrated or rated by user 2.  Request q, by runs[q].user, is
\* handled by the ratings handler from its first line.
InitRate ==
    /\ pc = "idle"
    /\ scraper = "none"
    /\ browser = "none"
    /\ limit = DefaultLimit
    /\ ci = 1
    /\ productLinks = <<>>
    /\ li = 1
    /\ products = <<>>
    /\ pi = 1
    /\ now = 0
    /\ catalog \in {Create({}, Posted).store,
                    Rate(Create({}, Posted).store, 1,
                         [_id |-> 2, role |-> "user"],
                         [rating |-> Some(4)]).store}
    /\ conn = FALSE
    /\ openPages = 0
    /\ error = "none"
    /\ result = "pending"
    /\ closeCount = 0
    /\ disconnects = 0
    /\ walked = {}
    /\ discoverable = <<>>
    /\ extractLog = <<>>
    /\ listLoads = 0
    /\ syncLog = <<>>
    /\ lastCall = None
    /\ lastSync = <<>>
    /\ inFlight = {}
    /\ runs \in [Runs -> [pc : {"find"}, id : Ids, user : Users,
                          body : RatingBodies, product : {None},
                          response : {None}]]
    /\ applied = <<>>
    /\ response = None
    /\ cartItems = <<>>

\* Product.findById resolves for request q, and the handler runs to its next
\* await: it passes an AppError on, or pushes the rating to its copy of the
\* product and calls save(), which validates the copy.
RateFind(q) ==
    /\ runs[q].pc = "find"
    /\ LET found == {d \in catalog : d._id = runs[q].id}
           product == CHOOSE d \in found : TRUE
           rating == [user |-> runs[q].user._id,
                      rating |-> runs[q].body.rating, createdAt |-> now]
           pushed == [product EXCEPT !.ratings = Append(@, rating)]
           passed(err) == [runs EXCEPT ![q].pc = "done",
                                       ![q].response = Some(Passed(err))]
       IN  runs' =
               IF found = {} THEN passed("AppError 404")
               ELSE IF \E i \in DOMAIN product.ratings :
                           product.ratings[i].user = runs[q].user._id
               THEN passed("AppError 400")
               ELSE IF ~Valid(pushed) THEN passed("ValidationError")
               ELSE [runs EXCEPT ![q].pc = "save",
                                 ![q].product = Some(PreSave(pushed))]
    /\ UNCHANGED <<soloVars, catalog, applied>>

\* product.save() resolves for request q: the store has applied the changes
\* of the copy to the stored document ($push of the new rating, $set of
\* averageRating, numReviews and updatedAt), and 201 is sent.
RateSave(q) ==
    /\ runs[q].pc = "save"
    /\ LET product == runs[q].product[1]
           stored == CHOOSE d \in catalog : d._id = product._id
       IN  catalog' = (catalog \ {stored}) \cup
               {[stored EXCEPT
                    !.ratings = Append(@, product.ratings[Len(product.ratings)]),
                    !.averageRating = product.averageRating,
                    !.numReviews = product.numReviews,
                    !.updatedAt = now]}
    /\ runs' = [runs EXCEPT ![q].pc = "done",
                            ![q].response = Some(Sent(201))]
    /\ UNCHANGED <<soloVars, applied>>

NextRate == \E q \in Runs : RateFind(q) \/ RateSave(q)

SpecRate == InitRate /\ [][NextRate]_vars

\* ------------------------------------------------- the cart (CartProvider)

\* Largest quantity, by absolute value, of an argument and of an entry.
MaxQuantity == 3

\* const [items, setItems] = useState([]): setItems puts the list an updater
\* returns in place of items.
SetItems(nextItems) ==
    /\ \A i \in 1..Len(nextItems) :
           nextItems[i].quantity \in -MaxQuantity..MaxQuantity
    /\ cartItems' = nextItems
    /\ UNCHANGED <<pc, scraper, browser, limit, ci, productLinks, li,
                   products, pi, catalog, conn, openPages, error, result,
                   closeCount, disconnects, walked, discoverable, extractLog,
                   listLoads, syncLog, lastCall, lastSync, inFlight, now,
                   runs, applied, response>>

\* addItem(product, quantity): the entry of the product gets the quantity
\* added; without such an entry one is appended.
AddItem(product, quantity) ==
    /\ product \in Ids
    /\ SetItems(IF \E i \in 1..Len(cartItems) : cartItems[i].product = product
                THEN [i \in 1..Len(cartItems) |->
                         IF cartItems[i].product = product
                         THEN [cartItems[i] EXCEPT !.quantity = @ + quantity]
                         ELSE cartItems[i]]
                ELSE Append(cartItems, [product |-> product,
                                    quantity |-> quantity]))

\* removeItem(productId)
RemoveItem(productId) ==
    /\ productId \in Ids
    /\ SetItems(SelectSeq(cartItems, LAMBDA item : item.product # productId))

\* updateQuantity(productId, quantity)
UpdateQuantity(productId, quantity) ==
    /\ productId \in Ids
    /\ IF quantity <= 0
       THEN RemoveItem(productId)
       ELSE SetItems([i \in 1..Len(cartItems) |->
                         IF cartItems[i].product = productId
                         THEN [cartItems[i] EXCEPT !.quantity = quantity]
                         ELSE cartItems[i]])

\* clearCart()
ClearCart ==
    /\ cartItems # <<>>
    /\ SetItems(<<>>)

\* totalItems: items.reduce((total, item) => total + item.quantity, 0)
RECURSIVE TotalItems(_)
TotalItems(its) ==
    IF its = <<>> THEN 0
    ELSE TotalItems(SubSeq(its, 1, Len(its) - 1)) + its[Len(its)].quantity

NextCart ==
    \/ \E product \in Ids, quantity \in -MaxQuantity..MaxQuantity :
           AddItem(product, quantity)
    \/ \E productId \in Ids : RemoveItem(productId)
    \/ \E productId \in Ids, quantity \in -MaxQuantity..MaxQuantity :
           UpdateQuantity(productId, quantity)
    \/ ClearCart

SpecCart == Init /\ [][NextCart]_vars

\* ================================================================== claims

Min(a, b) == IF a < b THEN a ELSE b

\* The documents stored under a (source, sourceId).
DocsOf(key) == {d \in catalog : DocKey(d) = key}

\* C1: Catalog Sync is an idempotent, last-write-wins upsert: the catalog never
\* holds two records with the same (source, sourceId), and every key a
\* Backmarket sync call was answered for has exactly one record, whose price
\* is that of the latest answered call for the key.
C1_UpsertLastWriteWins ==
    /\ \A d1, d2 \in catalog : DocKey(d1) = DocKey(d2) => d1 = d2
    /\ \A key \in DOMAIN lastSync :
           /\ Cardinality(DocsOf(key)) = 1
           /\ \A d \in DocsOf(key) : d.price = lastSync[key]

\* C1 witness: two listings of one batch with the same sourceId and different
\* prices have both been synced; the record holds the second price.
C1_Witness ==
    /\ pc = "sync" /\ pi = 3 /\ syncLog = <<"ok", "ok">>
    /\ products[1].sourceId = products[2].sourceId
    /\ products[1].price # products[2].price
    /\ \E d \in catalog :
           /\ DocKey(d) = <<"Backmarket", products[2].sourceId>>
           /\ d.price = products[2].price

\* C2: every findOneAndUpdate call of either scraper is made for a listing
\* whose extracted name and price are both present (not null / undefined).
C2_NameAndPricePresent ==
    lastCall # None => lastCall[1].name # None /\ lastCall[1].price # None

\* C2 witness: of two visited listings the first lacked its name or price and
\* was dropped, the second was extracted: only the second is handed to the
\* persistence loop.
C2_Witness ==
    /\ pc = "extract" /\ li > Len(productLinks)
    /\ extractLog = <<"missing", "ok">>
    /\ Len(products) = 1 /\ products[1].sourceUrl = productLinks[2]

\* C3 (as claimed): no findOneAndUpdate call is made for a listing whose
\* extracted image list is empty.
C3_NoCallWithoutImage ==
    lastCall # None => lastCall[1].images # <<>>

\* C4: browser.close() is called exactly once in every run whose launch
\* succeeded, whatever the exit path, and only when the run has ended:
\* a closed browser means the run is done, and a run that is done with a
\* launched browser has closed it once.
C4_CloseExactlyOnce ==
    /\ closeCount <= 1
    /\ (browser = "closed") <=> (closeCount = 1)
    /\ browser = "closed" => pc = "done"
    /\ (pc = "done" /\ browser # "none") => closeCount = 1

\* C4 witness: a Backmarket run in which a category walk threw has ended
\* with one close call.
C4_Witness ==
    /\ pc = "done" /\ scraper = "Backmarket" /\ error = "category"
    /\ closeCount = 1 /\ catalog # {}

\* C5 (as claimed): a Backmarket run whose browser was launched walks every
\* category of the list, also when the walk of an earlier category threw.
C5_AllCategoriesWalked ==
    (pc = "done" /\ scraper = "Backmarket" /\ error # "launch")
        => walked = 1..NumCategories

\* C6: a failing persistence call does not stop the batch: the persistence
\* loop is left only when every listing of the batch has had its turn, every
\* listing whose call succeeded is in the catalog, and no stored key is ever
\* removed again.
C6_Isolated(i) ==
    syncLog[i] = "ok" =>
        \E d \in catalog :
            IF scraper = "Backmarket"
            THEN DocKey(d) = <<"Backmarket", products[i].sourceId>>
            ELSE d.sourceUrl = products[i].url

C6_PartialFailureIsolation ==
    [][/\ (pc \in {"sync", "n_sync"} /\ pc' \notin {"sync", "n_sync"})
           => Len(syncLog) = Len(products)
       /\ \A d \in catalog : \E e \in catalog' : DocKey(e) = DocKey(d)
       /\ \A i \in 1..Len(syncLog') : C6_Isolated(i)']_vars

\* C6 witness: the first call of a batch of two failed, the second was made
\* and its listing is stored.
C6_Witness ==
    /\ pc = "sync" /\ Len(products) = 2 /\ syncLog = <<"failed", "ok">>
    /\ products[1].sourceId # products[2].sourceId
    /\ DocsOf(<<"Backmarket", products[2].sourceId>>) # {}
    /\ DocsOf(<<"Backmarket", products[1].sourceId>>) = {}

\* The links whose extraction succeeded, in discovery order.
RECURSIVE Successes(_, _)
Successes(links, log) ==
    IF links = <<>> \/ log = <<>> THEN <<>>
    ELSE (IF Head(log) = "ok" THEN <<Head(links)>> ELSE <<>>)
             \o Successes(Tail(links), Tail(log))

\* C7: a failing extraction never aborts the category: once the links are
\* discovered the walker does not throw, and when it returns it has attempted
\* every link and returns exactly the extracted listings, in discovery order.
C7_BadListingNeverAborts ==
    [][/\ pc \in {"extract", "product"} => pc' \in {"extract", "product", "sync"}
       /\ (pc = "extract" /\ pc' = "sync") =>
              /\ Len(extractLog) = Len(productLinks)
              /\ [i \in 1..Len(products) |-> products[i].sourceUrl]
                     = Successes(productLinks, extractLog)]_vars

\* C7 witness: of two discovered links the first failed and the second was
\* extracted; the walker is about to return.
C7_Witness ==
    /\ pc = "extract" /\ li > Len(productLinks)
    /\ Len(productLinks) = 2 /\ extractLog = <<"failed", "ok">>
    /\ Len(products) = 1 /\ products[1].sourceUrl = productLinks[2]

\* Extraction attempts of this walk, the one in flight included.
Attempts == Len(extractLog) + (IF pc = "product" THEN 1 ELSE 0)

\* C8: a walk bounded to N collects the first min(N, M) of the M links of the
\* listing page, attempts at most N extractions and loads one listing page.
C8_WalkBounded ==
    /\ listLoads <= 1
    /\ Attempts <= limit
    /\ pc \in {"extract", "product"} =>
           productLinks =
               SubSeq(discoverable, 1, Min(limit, Len(discoverable)))

\* C8 witness: a walk bounded to 1 on a page with 2 links has made its one
\* attempt.
C8_Witness ==
    /\ limit = 1 /\ Len(discoverable) = 2 /\ Len(productLinks) = 1
    /\ pc = "extract" /\ Len(extractLog) = 1

\* C9 (as claimed): after a launch failure no category is walked, no page
\* opened, no persistence call made, and the run ends rejected.
C9_LaunchFailureObservable ==
    error = "launch" =>
        /\ walked = {} /\ openPages = 0 /\ catalog = {} /\ lastCall = None
        /\ pc = "done" => result = "rejected"

\* C9 (amended): after a launch failure no category is walked, no page
\* opened, no persistence call made and no browser closed; scrapeNewegg
\* rejects, but BackmarketScraper.scrapeAndSave logs the failure and resolves.
C9_LaunchFailureAborts ==
    error = "launch" =>
        /\ pc \in {"catch", "finally", "done"}
        /\ walked = {} /\ openPages = 0 /\ catalog = {} /\ lastCall = None
        /\ syncLog = <<>> /\ browser = "none" /\ closeCount = 0
        /\ pc = "done" =>
               result = IF scraper = "Backmarket" THEN "resolved" ELSE "rejected"

\* C9 witness: a Backmarket run whose launch failed has ended, resolved.
C9_Witness ==
    /\ error = "launch" /\ pc = "done" /\ scraper = "Backmarket"
    /\ result = "resolved"

\* The stage of the driver's state machine.
Stage ==
    CASE pc = "idle" -> "idle"
      [] pc = "starting" -> "browser-starting"
      [] pc \in {"walk", "listing", "extract", "product"} -> "walking"
      [] pc = "sync" -> "syncing"
      [] pc \in {"catch", "finally"} -> "browser-closing"
      [] pc = "done" -> "done"
      [] OTHER -> "newegg"

C11_ConcurrentUpsert ==
    [][/\ \A d1, d2 \in catalog' : DocKey(d1) = DocKey(d2) => d1 = d2
       /\ \A key \in DOMAIN applied' :
              /\ Cardinality({d \in catalog' : DocKey(d) = key}) = 1
              /\ \A d \in catalog' :
                     DocKey(d) = key =>
                         \A f \in DOMAIN applied'[key] :
                             d[f] = applied'[key][f]
       /\ \A r \in Runs :
              Len(runs'[r].log) > Len(runs[r].log) =>
                  /\ runs'[r].pc = "loop" /\ runs'[r].pi = runs[r].pi + 1
                  /\ runs'[r].log[Len(runs'[r].log)] = "failed" =>
                         /\ catalog' = catalog
                         /\ DocsOf(DocKey(RaceDoc(r))) # {}]_vars

\* C11 witness: both runs found no record for a key and called the insert
\* with different prices; run 1 won, run 2 lost and logged the failure.
C11_Witness ==
    /\ runs[1].log = <<"ok">> /\ runs[2].log = <<"failed">>
    /\ Cardinality(catalog) = 1
    /\ \A d \in catalog : d.category = Categories[1]

\* C12: a run is strictly sequential: at most one awaited call (launch, page
\* opening, page navigation and evaluation, persistence call, close) is in
\* flight at any time; inside a category the call in flight is for the link
\* next in discovery order, all links before it having been attempted and
\* their listings collected in that order; in the persistence loop the call
\* in flight is for the listing next in the batch.
C12_StrictlySequential ==
    /\ Cardinality(inFlight) <= 1
    /\ pc \in {"extract", "product"} =>
           /\ Len(extractLog) = li - 1
           /\ inFlight \subseteq {<<"newPage", li>>, <<"page", li>>}
           /\ [i \in 1..Len(products) |-> products[i].sourceUrl]
                  = Successes(SubSeq(productLinks, 1, li - 1), extractLog)
    /\ pc \in {"sync", "n_sync"} =>
           /\ Len(syncLog) = pi - 1
           /\ inFlight \subseteq {<<"save", pi>>}

\* C12 witness: the first of two links was extracted and the page of the
\* second is being loaded, nothing else in flight.
C12_Witness ==
    /\ pc = "product" /\ li = 2 /\ Len(productLinks) = 2
    /\ extractLog = <<"ok">> /\ Len(products) = 1
    /\ inFlight = {<<"page", 2>>}

\* C13: runScrapers invokes mongoose.disconnect exactly once on every exit
\* path, as its last step; a run that manages the connection (runScrapers,
\* scrapeNewegg) makes every persistence call while it holds the connection,
\* and none after it has disconnected.
C13_ConnectionBrackets ==
    [][/\ disconnects' <= 1
       /\ (scraper' = "runScrapers" /\ pc' = "done") => disconnects' = 1
       /\ disconnects' = 1 => (pc' = "done" /\ ~conn')
       /\ disconnects = 1 => UNCHANGED <<catalog, lastCall, syncLog>>
       /\ (/\ scraper \in {"runScrapers", "Newegg"}
           /\ Len(syncLog') > Len(syncLog)
           /\ syncLog'[Len(syncLog')] # "skipped")
              => (conn /\ conn' /\ disconnects' = 0)]_vars

\* C13 witness: runScrapers connected, what it ran next threw, and it ended
\* having disconnected once.
C13_Witness ==
    /\ scraper = "runScrapers" /\ pc = "done" /\ error = "constructor"
    /\ disconnects = 1 /\ ~conn /\ inFlight = {}

\* The tokens a request carries, in its cookie or as its Bearer header.
TokensCarried(credentials) ==
    {t \in {<<"A">>, <<"U">>, <<"G">>, <<"X">>} :
         \/ credentials.cookie = Some(t)
         \/ credentials.authorization = Bearer(t)}

\* The users whose token a request carries.
Bearers(credentials) ==
    {u \in Users : \E t \in TokensCarried(credentials) : Verify(t) = Some(u._id)}

\* The ratings of a record and what is derived from them.
RatingsOf(d) == <<d.ratings, d.averageRating, d.numReviews>>

\* The record d as it is after the step, if it is there.
After(d) == {e \in catalog' : e._id = d._id}

\* C14 as stated: every Catalog Sync call leaves the ratings list,
\* averageRating and numReviews of every existing record unchanged, and the
\* ratings of a record change only by a rating submission of an
\* authenticated user.
C14_RatingsOnlyByRatingEndpoint ==
    [][/\ lastCall' # None =>
              \A d \in catalog :
                  \E e \in After(d) : RatingsOf(e) = RatingsOf(d)
       /\ \A d \in catalog :
              (\E e \in After(d) : e.ratings # d.ratings) =>
                  \E credentials \in CredentialsSent, body \in RatingBodies :
                      /\ Bearers(credentials) # {}
                      /\ AddRating(credentials, d._id, body)]_vars

\* C14, amended: every Catalog Sync call leaves the ratings list,
\* averageRating and numReviews of every existing record unchanged, and the
\* ratings of a record change only by an authenticated API request: a rating
\* submission, which appends the user's rating, or an admin's update of the
\* product.
C14_ScraperLeavesRatings ==
    [][/\ lastCall' # None =>
              \A d \in catalog :
                  \E e \in After(d) : RatingsOf(e) = RatingsOf(d)
       /\ \A d \in catalog :
              (\E e \in After(d) : e.ratings # d.ratings) =>
                  \/ \E credentials \in CredentialsSent,
                        body \in RatingBodies :
                         /\ Bearers(credentials) # {}
                         /\ AddRating(credentials, d._id, body)
                         /\ \A e \in After(d) :
                                /\ Len(e.ratings) = Len(d.ratings) + 1
                                /\ SubSeq(e.ratings, 1, Len(d.ratings))
                                       = d.ratings
                  \/ \E credentials \in CredentialsSent,
                        body \in UpdateBodies :
                         /\ \E u \in Bearers(credentials) : u.role = "admin"
                         /\ UpdateProduct(credentials, d._id, body)]_vars

\* A sync call has just updated a record that has a rating.
C14_Witness ==
    /\ lastCall # None /\ syncLog = <<"ok">>
    /\ \E d \in catalog :
           /\ d.ratings # <<>> /\ d.numReviews = 1
           /\ d.updatedAt = now - 1 /\ d.createdAt < d.updatedAt
           /\ d.source = "Backmarket" /\ d.category = Categories[ci]

\* The (source, sourceId) pairs of the records of a store.
KeysOf(store) == {DocKey(d) : d \in store}

\* C15: a record is created by the first successful sync of its (source,
\* sourceId) and from then on updated in place: a sync call never takes a
\* key from the catalog, every existing record keeps its _id, its key and
\* its createdAt, and an answered call of the Backmarket scraper leaves one
\* record of the listing's key: the one there was, or a new one created now.
C15_CreatedOnceUpdatedInPlace ==
    [][lastCall' # None =>
           /\ KeysOf(catalog) \subseteq KeysOf(catalog')
           /\ \A d \in catalog :
                  \E e \in After(d) :
                      /\ e.createdAt = d.createdAt
                      /\ DocKey(e) = DocKey(d)
           /\ (syncLog' = <<"ok">> /\ "sourceId" \in DOMAIN lastCall'[1]) =>
                  LET key == <<"Backmarket", lastCall'[1].sourceId>>
                      was == {d \in catalog : DocKey(d) = key}
                      is == {e \in catalog' : DocKey(e) = key}
                  IN  /\ Cardinality(is) = 1
                      /\ was = {} =>
                             /\ catalog' \ is = catalog
                             /\ \A e \in is :
                                    /\ e.createdAt = now
                                    /\ \A d \in catalog : d._id # e._id
                      /\ was # {} =>
                             /\ Cardinality(catalog') = Cardinality(catalog)
                             /\ \A d \in was : After(d) = is]_vars

\* A Backmarket sync call has just updated a record created earlier.
C15_Witness ==
    /\ lastCall # None /\ syncLog = <<"ok">>
    /\ "sourceId" \in DOMAIN lastCall[1]
    /\ Cardinality(catalog) = 1
    /\ \E d \in catalog :
           /\ DocKey(d) = <<"Backmarket", lastCall[1].sourceId>>
           /\ d.createdAt = 0 /\ d.updatedAt = 1 /\ now = 2
           /\ d.price = lastCall[1].price

\* The fields of a record the scraper owns.
ScraperOwned ==
    {"name", "description", "brand", "price", "originalPrice", "stock",
     "images", "specifications"}

\* C16: after an answered sync call for listing L in category C, the record
\* of L's key has L's current value in every scraper-owned field (none where
\* L has none), category C and the time of the call as updatedAt.
C16_SyncSetsCurrentValues ==
    [][(syncLog' = <<"ok">> /\ "sourceId" \in DOMAIN lastCall'[1]) =>
           \E e \in catalog' :
               /\ DocKey(e) = <<"Backmarket", lastCall'[1].sourceId>>
               /\ \A f \in ScraperOwned : e[f] = lastCall'[1][f]
               /\ e.category = Categories[ci']
               /\ e.updatedAt = now]_vars

\* C17: every record a scraper has persisted has a price and a stock that
\* are not negative, a source of the enumeration, a sourceId that is not
\* empty and at least one image.
C17_StoredRecordsValid ==
    \A d \in catalog :
        /\ d.price # None /\ d.price[1] # NaN /\ d.price[1] >= 0
        /\ d.stock >= 0
        /\ d.source \in {"Newegg", "Backmarket"}
        /\ d.sourceId # None /\ d.sourceId[1] # <<>>
        /\ d.images # <<>>

\* The step is the handling of a POST /, PUT /:id or DELETE /:id request
\* with these credentials.
WriteRequest(credentials) ==
    \/ \E body \in CreateBodies : CreateProduct(credentials, body)
    \/ \E id \in Ids, body \in UpdateBodies :
           UpdateProduct(credentials, id, body)
    \/ \E id \in Ids : DeleteProduct(credentials, id)

\* The requests that carry no token of a user, and those that carry the token
\* of users who are no admins.
Anonymous == {credentials \in CredentialsSent : Bearers(credentials) = {}}

NonAdmin ==
    {credentials \in CredentialsSent \ Anonymous :
         \A u \in Bearers(credentials) : u.role # "admin"}

\* C18: a POST /, PUT /:id or DELETE /:id request that carries no token of a
\* user is answered with 401, one that carries the token of a user who is no
\* admin with 403, and both leave the catalog as it is; GET / and the GET
\* /:id of a stored product are answered with 200 whatever the request
\* carries, a token or none.
C18_WritesNeedAdminToken ==
    [][/\ \A credentials \in Anonymous :
              WriteRequest(credentials) =>
                  response' = Some(Sent(401)) /\ catalog' = catalog
       /\ \A credentials \in NonAdmin :
              WriteRequest(credentials) =>
                  response' = Some(Sent(403)) /\ catalog' = catalog
       /\ \A credentials \in CredentialsSent :
              /\ GetProducts(credentials) =>
                     response' = Some(Sent(200)) /\ catalog' = catalog
              /\ \A d \in catalog :
                     GetProduct(credentials, d._id) =>
                         response' = Some(Sent(200)) /\ catalog' = catalog]_vars

\* A write request has just been turned away with 401 while a product is
\* stored.
C18_Witness ==
    /\ response = Some(Sent(401))
    /\ catalog # {}
    /\ now = MaxOps

\* C19: in every state, the numReviews of every product is the number of its
\* ratings and its averageRating their mean (0 when it has none).
C19_RatingsConsistent ==
    \A d \in catalog :
        /\ d.numReviews = Len(d.ratings)
        /\ d.averageRating = IF d.ratings = <<>> THEN <<0, 1>>
                             ELSE MeanRating(d.ratings)

\* What C20 asks of scrapeProduct: a page without price element gives a
\* null price and the 'missing' failure, no listing; a page with a title and
\* a price but no original-price element gives a listing whose originalPrice
\* is null.
BackmarketPriceAbsence ==
    \A page \in ProductPages :
        ProductExtract(page) =>
            /\ page.price = None =>
                   /\ Evaluate(page).price = None
                   /\ extractLog' = Append(extractLog, "missing")
                   /\ products' = products
            /\ (page.originalPrice = None
                    /\ ~RequiredMissing(Evaluate(page))) =>
                   /\ Len(products') = Len(products) + 1
                   /\ products'[Len(products')].originalPrice = None
                   /\ extractLog' = Append(extractLog, "ok")

\* What C20 asks of scrapeNewegg: an item without price element gives a null
\* price, and no product is returned for it.
NeweggPriceAbsence ==
    \A items \in ItemLists :
        NeweggLoad(items) =>
            \A i \in DOMAIN items :
                items[i].price = None =>
                    /\ NeweggProduct(items[i]).price = None
                    /\ \A j \in DOMAIN products' :
                           products'[j] # NeweggProduct(items[i])

\* C20: on both sites, a listing without price element has a null price (not
\* zero) and fails extraction as incomplete, and one without original-price
\* element has a null originalPrice and is returned.
C20_MissingPriceIsNull ==
    [][BackmarketPriceAbsence /\ NeweggPriceAbsence]_vars

\* C21: nothing is retried.  In the extraction loop every step belongs to
\* the attempt on link li or ends it: a navigation is begun for link li once,
\* and when the attempt is over, well or not, the loop is at link li + 1 with
\* one outcome logged per link passed; the loop is left with one outcome per
\* discovered link.  In the persistence loops every turn makes at most one
\* call for listing pi and goes to listing pi + 1, whatever the answer.
C21_NothingRetried ==
    [][/\ (pc \in {"extract", "product"} /\ pc' \in {"extract", "product"}) =>
              /\ productLinks' = productLinks
              /\ pc' = "product" => pc = "extract" /\ li' = li
              /\ pc' = "extract" => li' = li + 1
              /\ Len(extractLog') = li' - 1
       /\ (pc \in {"extract", "product"} /\ pc' \notin {"extract", "product"}) =>
              pc = "extract" /\ Len(extractLog) = Len(productLinks)
       /\ (pc \in {"sync", "n_sync"} /\ pc' = pc) =>
              /\ products' = products
              /\ pi' = pi + 1
              /\ Len(syncLog') = pi
       /\ (pc \in {"sync", "n_sync"} /\ pc' # pc) =>
              Len(syncLog) = Len(products)]_vars

\* The walk of a category is over: the first of its two links has failed and
\* was not tried again, the second has given a listing.
C21_Witness ==
    /\ pc = "extract" /\ Len(productLinks) = 2 /\ li = 3
    /\ extractLog = <<"failed", "ok">>
    /\ Len(products) = 1
    /\ products[1].sourceUrl = productLinks[2]

\* The first colon of a specs entry (0: none), the label before it and the
\* value after it.
Colon(e) ==
    IF \A i \in 1..Len(e) : e[i] # ":" THEN 0
    ELSE CHOOSE i \in 1..Len(e) : e[i] = ":" /\ \A j \in 1..(i - 1) : e[j] # ":"

LabelOf(e) == Trim(SubSeq(e, 1, Colon(e) - 1))

ValueOf(e) == Trim(SubSeq(e, Colon(e) + 1, Len(e)))

WellFormed(e) == Colon(e) > 0 /\ LabelOf(e) # <<>> /\ ValueOf(e) # <<>>

\* The listing a step has just appended to products.
Extracted == products'[Len(products')]

\* C22: specification parsing keeps exactly the well-formed pairs: whatever
\* the entries of the specs list are, extraction succeeds and the mapping of
\* the listing holds label -> value for each entry with a non-empty label
\* and a non-empty value (the last one of a label that occurs twice) and
\* nothing else.
C22_SpecsKeepWellFormedPairs ==
    [][\A page \in ParsePages :
          ProductExtract(page) /\ page.specs # <<>> =>
              /\ Len(products') = Len(products) + 1
              /\ DOMAIN Extracted.specifications =
                     {LabelOf(page.specs[i]) :
                          i \in {j \in 1..Len(page.specs) :
                                     WellFormed(page.specs[j])}}
              /\ \A i \in 1..Len(page.specs) :
                     (/\ WellFormed(page.specs[i])
                      /\ \A j \in (i + 1)..Len(page.specs) :
                             WellFormed(page.specs[j]) =>
                                 LabelOf(page.specs[j]) # LabelOf(page.specs[i]))
                     => Extracted.specifications[LabelOf(page.specs[i])] =
                            ValueOf(page.specs[i])]_vars

\* The digits and points of a text, in their order.
RECURSIVE DigitsAndPoints(_)
DigitsAndPoints(t) ==
    IF t = <<>> THEN <<>>
    ELSE (IF Head(t) = "." \/ Head(t) \in Digits THEN <<Head(t)>> ELSE <<>>)
             \o DigitsAndPoints(Tail(t))

\* A decimal numeral: at least one digit and at most one point.
Numeral(s) ==
    /\ \E i \in 1..Len(s) : s[i] \in Digits
    /\ Cardinality({i \in 1..Len(s) : s[i] = "."}) <= 1

\* The number a numeral denotes, in hundredths.
Denoted(s) ==
    LET point == IF \E i \in 1..Len(s) : s[i] = "."
                 THEN CHOOSE i \in 1..Len(s) : s[i] = "." ELSE Len(s) + 1
        cents == SubSeq(SubSeq(s, point + 1, Len(s)) \o <<"0", "0">>, 1, 2)
    IN  100 * DigitsValue(SubSeq(s, 1, point - 1)) + DigitsValue(cents)

\* The number denoted by the longest prefix of s that is a numeral; NaN
\* when no prefix is one.
PrefixDenoted(s) ==
    LET lens == {n \in 1..Len(s) : Numeral(SubSeq(s, 1, n))}
    IN  IF lens = {} THEN NaN
        ELSE Denoted(SubSeq(s, 1, CHOOSE n \in lens : \A m \in lens : m <= n))

\* The deals-page item that shows the price element of a product page.
ItemOf(page) == Item(GoodTitle, page.price, Some("i"), UrlN)

\* C23 as claimed: for every raw price text the parsed price is the number
\* denoted by the digits and points of the text.
C23_PriceIsDenotedNumber ==
    [][\A page \in ParsePages :
          LET kept == DigitsAndPoints(page.price[1])
          IN  /\ ProductExtract(page) =>
                     /\ Numeral(kept)
                     /\ Evaluate(page).price = Some(Denoted(kept))
              /\ NeweggLoad(<<ItemOf(page)>>) =>
                     /\ Numeral(kept)
                     /\ NeweggProduct(ItemOf(page)).price = Some(Denoted(kept))]_vars

\* C23: the parsed price of a raw text is the number denoted by the longest
\* numeral prefix of its digits and points, which is the number they denote
\* when they form a numeral ("$1,299.99 USD" gives 1299.99, "1.2.3" gives
\* 1.2); without such a prefix it is NaN, and 0 in scrapeNewegg when the
\* text has neither digit nor point.  An extracted listing carries it.
C23_PriceParsing ==
    [][\A page \in ParsePages :
          LET kept == DigitsAndPoints(page.price[1])
          IN  /\ Numeral(kept) => PrefixDenoted(kept) = Denoted(kept)
              /\ ProductExtract(page) =>
                     /\ Evaluate(page).price = Some(PrefixDenoted(kept))
                     /\ Len(products') > Len(products) =>
                            Extracted.price = Some(PrefixDenoted(kept))
              /\ NeweggLoad(<<ItemOf(page)>>) =>
                     LET parsed == IF kept = <<>> THEN 0 ELSE PrefixDenoted(kept)
                     IN  /\ NeweggProduct(ItemOf(page)).price = Some(parsed)
                         /\ products' # <<>> => products'[1].price = Some(parsed)]_vars

\* A listing priced 1299.99 has been extracted from "$1,299.99 USD".
C23_Witness ==
    /\ products # <<>>
    /\ products[Len(products)].price = Some(129999)

\* C24: every listing handed to Catalog Sync carries a non-empty sourceId,
\* and two listings of one run with different product URLs are looked up
\* under different keys, so that they map to different catalog records.
C24_SourceIdIsNaturalKey ==
    \A i \in 1..Len(products) :
        /\ "sourceId" \in DOMAIN products[i]
        /\ products[i].sourceId \notin {None, Some(<<>>)}
        /\ \A j \in 1..Len(products) :
               products[i].sourceUrl # products[j].sourceUrl =>
                   SyncFilter(products[i]) # SyncFilter(products[j])

\* C27: a listing is dropped before Catalog Sync only when its name or its
\* price could not be located: an evaluated page or deals-page item whose
\* listing is not returned has no title text, no price element or a price
\* text that is no number; one whose price parses to 0 is returned.
C27_DroppedOnlyWithoutNameOrPrice ==
    [][\A page \in ParsePages :
          LET unlocated ==
                  \/ ~TruthyText(GetText(page.title))
                  \/ page.price = None
                  \/ PrefixDenoted(DigitsAndPoints(page.price[1])) = NaN
          IN  /\ ProductExtract(page) /\ Len(products') = Len(products)
                  => unlocated
              /\ NeweggLoad(<<ItemOf(page)>>) /\ products' = <<>>
                  => unlocated]_vars

\* C26: in a Backmarket run every opened page is closed again before the
\* next one is opened: at most one page is open at any time, no page is
\* open when the next one is about to be opened, and none is open once the
\* browser is closed.
C26_PagesClosed ==
    scraper = "Backmarket" =>
        /\ openPages <= 1
        /\ pc \in {"walk", "extract"} => openPages = 0
        /\ browser = "closed" => openPages = 0

\* C29: runScrapers isolates the two source scrapers: when the store was
\* connected and the Newegg scraper failed, the Backmarket scraper has still
\* been run (its browser launched, a category walked) by the time
\* runScrapers is done.
C29_SourcesFaultIsolated ==
    scraper = "runScrapers" /\ pc = "done" /\ error \notin {"none", "connect"}
        => browser # "none" /\ walked # {}

\* C25: a scrape run terminates: when every awaited browser and store call
\* settles, a started Backmarket run reaches its final state, with no
\* browser left open, whatever fails on the way.
C25_RunTerminates ==
    (scraper = "Backmarket") ~> (pc = "done" /\ browser # "open")

\* A run that lost a category to a failure has ended with its browser
\* closed.
C25_Witness ==
    /\ scraper = "Backmarket" /\ pc = "done"
    /\ browser = "closed"
    /\ error # "none"

\* The quantities of the first n entries of the cart, added up.
RECURSIVE QuantitySum(_)
QuantitySum(n) ==
    IF n = 0 THEN 0 ELSE cartItems[n].quantity + QuantitySum(n - 1)

\* C30: the cart stays well-formed under addItem, removeItem, updateQuantity
\* and clearCart with any integer quantities: no two entries hold the same
\* product id, every entry has quantity >= 1, and totalItems is the sum of
\* the quantities of the entries.
C30_CartWellFormed ==
    /\ \A i, j \in 1..Len(cartItems) :
           i # j => cartItems[i].product # cartItems[j].product
    /\ \A i \in 1..Len(cartItems) : cartItems[i].quantity >= 1
    /\ TotalItems(cartItems) = QuantitySum(Len(cartItems))

\* Whether a list of ratings holds two ratings of one user.
RatedTwice(ratings) ==
    \E i, j \in DOMAIN ratings : i # j /\ ratings[i].user = ratings[j].user

\* C28: a user rates a product at most once: however the steps of two
\* rating submissions interleave, no product comes to hold two ratings of
\* one user, and a submission by a user whose rating the product holds is
\* answered 'Product already rated' (400) and leaves the product as it is.
C28_RatedAtMostOnce ==
    [][/\ \A d \in catalog' : ~RatedTwice(d.ratings)
       /\ \A q \in Runs :
              (/\ RateFind(q)
               /\ \E d \in catalog :
                      /\ d._id = runs[q].id
                      /\ \E i \in DOMAIN d.ratings :
                             d.ratings[i].user = runs[q].user._id)
              => /\ runs'[q].response = Some(Passed("AppError 400"))
                 /\ catalog' = catalog]_vars

====
